---- MODULE Spec2Model ----
(***************************************************************************)
(* A model of the watermark remover's core: the box blur of               *)
(* ImageProcessor and VideoProcessor, the blur-radius formula, and the     *)
(* per-frame video pipeline VideoProcessor.processVideo with its frame     *)
(* source (extractFrame) and encoder (assembleVideo).                      *)
(*                                                                         *)
(* JavaScript numbers are IEEE-754 doubles: the divisions and products     *)
(* whose rounding can reach a result (minDim * 0.05, r_sum / count,        *)
(* (i + 1) / total * 100) are computed on 53-bit significands below.      *)
(***************************************************************************)
EXTENDS Integers, Sequences, FiniteSets, TLC

VARIABLES
    \* ---- one call of the blur on one image -------------------------------
    heap,             \* the typed arrays allocated so far: buffer id -> bytes
    pattern,          \* which test picture the input buffer was filled with
    imageData,        \* the ImageData handed to the blur: width, height, data
    watermarkRegion,  \* the region handed to the blur
    outcome,          \* what the call did: op, thrown, value, radius
    \* ---- one call of calculateBlurRadius ---------------------------------
    regionWidth, regionHeight, radiusResult,
    \* ---- one run of processVideo (with heap and watermarkRegion) ----------
    videoElement,            \* the <video> handed to processVideo
    canvas,                  \* this.canvas: width, height, bitmap
    updateProgressCallback,  \* whether the caller passed one
    pc,                      \* where processVideo stands
    processingFrameRate,
    totalFramesToProcess,
    sampleIndex,             \* the loop's i
    processedFrames,
    extractions,             \* the promise of every extractFrame call so far
    reported,                \* the values handed to updateProgressCallback
    assembly,                \* assembleVideo's frames, recorder, chunks, timer
    processVideoPromise,     \* what processVideo's caller awaits
    \* ---- the React components ---------------------------------------------
    watermarkRemover,  \* WatermarkRemover's state
    videoCanvas,       \* the mounted VideoCanvas: its props, state and effects
    imageCanvas,       \* the mounted ImageCanvas: its props, state and effects
    layout,            \* the canvas's pixel size and its getBoundingClientRect()
    invocations        \* the calls of processVideoWithBlur and processImage

blurVars == <<heap, pattern, imageData, watermarkRegion, outcome>>
radiusVars == <<regionWidth, regionHeight, radiusResult>>
sourceVars == <<videoElement, canvas>>
loopVars == <<pc, processingFrameRate, totalFramesToProcess, sampleIndex, processedFrames, extractions, reported>>
videoVars == <<sourceVars, updateProgressCallback, loopVars, assembly, processVideoPromise>>
uiVars == <<watermarkRemover, videoCanvas, imageCanvas, layout, invocations>>
vars == <<blurVars, radiusVars, videoVars, uiVars>>

(***************************************************************************)
(* Bounds of the model.                                                    *)
(***************************************************************************)
MaxWidth == 4        \* widest test image, in pixels
MaxHeight == 2       \* tallest test image, in pixels
MaxRadius == 3       \* largest radius handed to applyBlurEffect directly
MaxTwenties == 20    \* region sides up to 20 * MaxTwenties + 1 for the radius
FrameWidth == 2      \* videoWidth of the test video, in pixels
FrameHeight == 1     \* videoHeight of the test video, in pixels
MaxDurationTicks == 4  \* longest test video, in 1/32 s
MaxSamples == 50     \* longest run whose progress reports are followed

(***************************************************************************)
(* IEEE-754 double arithmetic on positive values.  A double is             *)
(* [sig, exp] of value sig * 2^exp: sig is its 53-bit significand as five  *)
(* limbs, the leading bit and four limbs of LimbBits bits, most            *)
(* significant first.  Every intermediate value stays below 2^31.          *)
(***************************************************************************)
LimbBits == 13
LimbBase == 8192

RECURSIVE Pow2(_)
Pow2(n) == IF n = 0 THEN 1 ELSE 2 * Pow2(n - 1)

\* a / b as num / den * 2^e with 1 <= num / den < 2.
RECURSIVE Normalise(_, _, _)
Normalise(num, den, e) ==
    IF num < den THEN Normalise(2 * num, den, e - 1)
    ELSE IF num >= 2 * den THEN Normalise(num, 2 * den, e + 1)
    ELSE [num |-> num, den |-> den, e |-> e]

\* limbs + 1: a carry out of the leading bit gives 2^53, one exponent up.
Increment(limbs, exp) ==
    LET c4 == limbs[5] + 1
        c3 == limbs[4] + c4 \div LimbBase
        c2 == limbs[3] + c3 \div LimbBase
        c1 == limbs[2] + c2 \div LimbBase
        c0 == limbs[1] + c1 \div LimbBase
    IN  IF c0 = 2 THEN [sig |-> <<1, 0, 0, 0, 0>>, exp |-> exp + 1]
        ELSE [sig |-> <<c0, c1 % LimbBase, c2 % LimbBase, c3 % LimbBase, c4 % LimbBase>>,
              exp |-> exp]

\* Round to nearest, ties to even: above says the tail dropped below limbs is
\* over half a unit of the last place, tie that it is exactly half.
RoundToDouble(limbs, exp, above, tie) ==
    IF above \/ (tie /\ limbs[5] % 2 = 1) THEN Increment(limbs, exp)
    ELSE [sig |-> limbs, exp |-> exp]

\* a / b in double arithmetic, for integers 0 < a, b < 2^17: long division,
\* one limb a step.
DoubleDiv(a, b) ==
    LET n == Normalise(a, b, 0)
        x1 == (n.num - n.den) * LimbBase
        x2 == (x1 % n.den) * LimbBase
        x3 == (x2 % n.den) * LimbBase
        x4 == (x3 % n.den) * LimbBase
        rem == x4 % n.den
    IN  RoundToDouble(<<1, x1 \div n.den, x2 \div n.den, x3 \div n.den, x4 \div n.den>>,
                      n.e - 4 * LimbBits, 2 * rem > n.den, 2 * rem = n.den)

\* d * c in double arithmetic, for a double d > 0 and an integer
\* 0 < c < LimbBase: the product limb by limb, then shifted back to 53 bits.
DoubleTimes(d, c) ==
    LET v4 == d.sig[5] * c
        v3 == d.sig[4] * c + v4 \div LimbBase
        v2 == d.sig[3] * c + v3 \div LimbBase
        v1 == d.sig[2] * c + v2 \div LimbBase
        top == d.sig[1] * c + v1 \div LimbBase
        s == CHOOSE j \in 0 .. LimbBits : Pow2(j) <= top /\ top < 2 * Pow2(j)
        P == Pow2(s)
        Q == LimbBase \div P
        p1 == v1 % LimbBase
        p2 == v2 % LimbBase
        p3 == v3 % LimbBase
        p4 == v4 % LimbBase
        dropped == p4 % P
    IN  RoundToDouble(<<top \div P,
                        (top % P) * Q + p1 \div P,
                        (p1 % P) * Q + p2 \div P,
                        (p2 % P) * Q + p3 \div P,
                        (p3 % P) * Q + p4 \div P>>,
                      d.exp + s, 2 * dropped > P, 2 * dropped = P)

\* A double 0 < d < 2^26 as its integer part, the first bit of its fraction
\* (half) and whether any lower bit of the fraction is set (rest).
Split(d) ==
    LET k == 0 - d.exp
        whole == k \div LimbBits
        s == k % LimbBits
        U == IF whole = 4 THEN d.sig[1]
             ELSE IF whole = 3 THEN d.sig[1] * LimbBase + d.sig[2]
             ELSE (d.sig[1] * LimbBase + d.sig[2]) * LimbBase + d.sig[3]
        next == IF whole = 4 THEN d.sig[2]
                ELSE IF whole = 3 THEN d.sig[3] ELSE d.sig[4]
        below == IF whole = 4 THEN d.sig[3] + d.sig[4] + d.sig[5]
                 ELSE IF whole = 3 THEN d.sig[4] + d.sig[5] ELSE d.sig[5]
        halfBit == IF s > 0 THEN (U \div Pow2(s - 1)) % 2
                   ELSE (next \div (LimbBase \div 2)) % 2
        rest == IF s > 0 THEN (U % Pow2(s - 1)) + next + below
                ELSE (next % (LimbBase \div 2)) + below
    IN  IF k > 4 * LimbBits + 1 THEN [int |-> 0, half |-> FALSE, rest |-> TRUE]
        ELSE IF k = 4 * LimbBits + 1
        THEN [int |-> 0, half |-> TRUE,
              rest |-> d.sig[2] + d.sig[3] + d.sig[4] + d.sig[5] > 0]
        ELSE [int |-> U \div Pow2(s), half |-> halfBit = 1, rest |-> rest > 0]

\* Math.floor(d)
DoubleFloor(d) == Split(d).int

\* The integer nearest d, ties to even.
DoubleRoundEven(d) ==
    LET p == Split(d)
    IN  IF p.half /\ (p.rest \/ p.int % 2 = 1) THEN p.int + 1 ELSE p.int

Min(a, b) == IF a <= b THEN a ELSE b
Max(a, b) == IF a >= b THEN a ELSE b

(***************************************************************************)
(* Typed arrays.  A Uint8ClampedArray is a function from 0 .. length-1 to  *)
(* bytes.  A write stores ToUint8Clamp of the number written (clamped to   *)
(* 0 .. 255, rounded to nearest, ties to even); a write at an index        *)
(* outside the array is ignored.                                           *)
(***************************************************************************)
\* The byte stored by `array[i] = sum / count` (sum >= 0, count > 0).
ToUint8Clamp(sum, count) ==
    IF sum = 0 THEN 0 ELSE Min(255, DoubleRoundEven(DoubleDiv(sum, count)))

\* array[idx]: undefined outside the array, which a typed array stores as 0.
ReadByte(array, idx) == IF idx \in DOMAIN array THEN array[idx] ELSE 0

WriteByte(array, idx, byte) ==
    IF idx \in DOMAIN array THEN [array EXCEPT ![idx] = byte] ELSE array

\* new Uint8ClampedArray(originalPixels): a fresh array holding a copy.
NewUint8ClampedArray(h, original) == Append(h, h[original])

(***************************************************************************)
(* calculateBlurRadius, once per class.                                    *)
(***************************************************************************)
\* Math.floor(minDim * 0.05): the literal 0.05 is the double nearest 1/20.
FloorOfFivePercent(minDim) == DoubleFloor(DoubleTimes(DoubleDiv(1, 20), minDim))

\* calculateBlurRadius without its minimum of 2.
ImageProcessor_calculateBlurRadius_noMinimum(rw, rh) ==
    LET w == Max(1, rw)
        h == Max(1, rh)
        minDim == Min(w, h)
        radius == FloorOfFivePercent(minDim)
    IN  Min(10, radius)

ImageProcessor_calculateBlurRadius(rw, rh) ==
    LET w == Max(1, rw)
        h == Max(1, rh)
        minDim == Min(w, h)
        radius == FloorOfFivePercent(minDim)
    IN  Min(10, Max(2, radius))

\* calculateBlurRadius without its cap at 10.
VideoProcessor_calculateBlurRadius_uncapped(rw, rh) ==
    LET w == Max(1, rw)
        h == Max(1, rh)
        minDim == Min(w, h)
        radius == FloorOfFivePercent(minDim)
    IN  Max(2, radius)

VideoProcessor_calculateBlurRadius(rw, rh) ==
    LET w == Max(1, rw)
        h == Max(1, rh)
        minDim == Min(w, h)
        radius == FloorOfFivePercent(minDim)
    IN  Min(10, Max(2, radius))

(***************************************************************************)
(* applyBlurEffect, once per class.  The pixels are written in the code's   *)
(* order on the heap, so that a target aliasing its source would read back *)
(* its own writes; the sums of a pixel are those of its kernel's rows.     *)
(***************************************************************************)
NoSums == [r |-> 0, g |-> 0, b |-> 0, count |-> 0]

\* r_sum, g_sum, b_sum and count after two runs of samples.
AddSums(a, b) ==
    [r |-> a.r + b.r, g |-> a.g + b.g, b |-> a.b + b.b, count |-> a.count + b.count]

\* The kx loop taking column 0 of the image for out of bounds.
RECURSIVE ImageProcessor_kxLoop_strictLeft(_, _, _, _, _, _, _, _)
ImageProcessor_kxLoop_strictLeft(src, x, y, radius, iw, ih, ky, kx) ==
    IF kx > radius THEN NoSums
    ELSE LET sampleX == x + kx
             sampleY == y + ky
             sampleIdx == (sampleY * iw + sampleX) * 4
             rest == ImageProcessor_kxLoop_strictLeft(src, x, y, radius, iw, ih, ky, kx + 1)
         IN  IF sampleX > 0 /\ sampleX < iw /\ sampleY >= 0 /\ sampleY < ih
             THEN [r |-> src[sampleIdx] + rest.r,
                   g |-> src[sampleIdx + 1] + rest.g,
                   b |-> src[sampleIdx + 2] + rest.b,
                   count |-> 1 + rest.count]
             ELSE rest

\* The kx loop from kx on: the sums and count of the in-bounds samples of
\* kernel row ky.
RECURSIVE ImageProcessor_kxLoop(_, _, _, _, _, _, _, _)
ImageProcessor_kxLoop(src, x, y, radius, iw, ih, ky, kx) ==
    IF kx > radius THEN NoSums
    ELSE LET sampleX == x + kx
             sampleY == y + ky
             sampleIdx == (sampleY * iw + sampleX) * 4
             rest == ImageProcessor_kxLoop(src, x, y, radius, iw, ih, ky, kx + 1)
         IN  IF sampleX >= 0 /\ sampleX < iw /\ sampleY >= 0 /\ sampleY < ih
             THEN [r |-> src[sampleIdx] + rest.r,
                   g |-> src[sampleIdx + 1] + rest.g,
                   b |-> src[sampleIdx + 2] + rest.b,
                   count |-> 1 + rest.count]
             ELSE rest

\* The ky loop from ky on.
RECURSIVE ImageProcessor_kyLoop(_, _, _, _, _, _, _)
ImageProcessor_kyLoop(src, x, y, radius, iw, ih, ky) ==
    IF ky > radius THEN NoSums
    ELSE AddSums(ImageProcessor_kxLoop(src, x, y, radius, iw, ih, ky, 0 - radius),
                 ImageProcessor_kyLoop(src, x, y, radius, iw, ih, ky + 1))

\* blurPixel dividing by the kernel area instead of the samples counted.
ImageProcessor_blurPixel_fixedKernelArea(h, target, source, x, y, radius, iw, ih) ==
    LET src == h[source]
        s == ImageProcessor_kyLoop(src, x, y, radius, iw, ih, 0 - radius)
        area == (2 * radius + 1) * (2 * radius + 1)
        targetIdx == (y * iw + x) * 4
        t1 == WriteByte(h[target], targetIdx, ToUint8Clamp(s.r, area))
        t2 == WriteByte(t1, targetIdx + 1, ToUint8Clamp(s.g, area))
        t3 == WriteByte(t2, targetIdx + 2, ToUint8Clamp(s.b, area))
        t4 == WriteByte(t3, targetIdx + 3, ReadByte(src, targetIdx + 3))
    IN  [h EXCEPT ![target] = t4]

\* The body of the x loop: one pixel summed from source, written to target.
ImageProcessor_blurPixel(h, target, source, x, y, radius, iw, ih) ==
    LET src == h[source]
        s == ImageProcessor_kyLoop(src, x, y, radius, iw, ih, 0 - radius)
        targetIdx == (y * iw + x) * 4
        t1 == WriteByte(h[target], targetIdx,
                  IF s.count > 0 THEN ToUint8Clamp(s.r, s.count)
                  ELSE ReadByte(src, targetIdx))
        t2 == WriteByte(t1, targetIdx + 1,
                  IF s.count > 0 THEN ToUint8Clamp(s.g, s.count)
                  ELSE ReadByte(src, targetIdx + 1))
        t3 == WriteByte(t2, targetIdx + 2,
                  IF s.count > 0 THEN ToUint8Clamp(s.b, s.count)
                  ELSE ReadByte(src, targetIdx + 2))
        t4 == WriteByte(t3, targetIdx + 3, ReadByte(src, targetIdx + 3))
    IN  [h EXCEPT ![target] = t4]

\* The x loop up to x: the heap once the pixels regionX .. x - 1 of row y
\* are written.
RECURSIVE ImageProcessor_xLoop(_, _, _, _, _, _, _, _, _)
ImageProcessor_xLoop(h, target, source, region, radius, iw, ih, y, x) ==
    IF x <= region.x THEN h
    ELSE ImageProcessor_blurPixel(
             ImageProcessor_xLoop(h, target, source, region, radius, iw, ih, y, x - 1),
             target, source, x - 1, y, radius, iw, ih)

\* The y loop up to y: the heap once the rows regionY .. y - 1 are written.
RECURSIVE ImageProcessor_yLoop(_, _, _, _, _, _, _, _)
ImageProcessor_yLoop(h, target, source, region, radius, iw, ih, y) ==
    IF y <= region.y THEN h
    ELSE ImageProcessor_xLoop(
             ImageProcessor_yLoop(h, target, source, region, radius, iw, ih, y - 1),
             target, source, region, radius, iw, ih, y - 1, region.x + region.width)

\* applyBlurEffect with the x loop running to x <= regionX + regionWidth.
ImageProcessor_applyBlurEffect_inclusiveBound(h, targetPixels, sourcePixels, region, radius, iw, ih) ==
    ImageProcessor_yLoop(h, targetPixels, sourcePixels,
        [region EXCEPT !.width = @ + 1], radius, iw, ih, region.y + region.height)

ImageProcessor_applyBlurEffect(h, targetPixels, sourcePixels, region, radius, iw, ih) ==
    ImageProcessor_yLoop(h, targetPixels, sourcePixels, region, radius, iw, ih,
        region.y + region.height)

\* The kx loop with count++ outside the bounds test of line 80.
RECURSIVE VideoProcessor_kxLoop_countAll(_, _, _, _, _, _, _, _)
VideoProcessor_kxLoop_countAll(src, x, y, radius, iw, ih, ky, kx) ==
    IF kx > radius THEN NoSums
    ELSE LET sampleX == x + kx
             sampleY == y + ky
             sampleIdx == (sampleY * iw + sampleX) * 4
             rest == VideoProcessor_kxLoop_countAll(src, x, y, radius, iw, ih, ky, kx + 1)
         IN  IF sampleX >= 0 /\ sampleX < iw /\ sampleY >= 0 /\ sampleY < ih
             THEN [r |-> src[sampleIdx] + rest.r,
                   g |-> src[sampleIdx + 1] + rest.g,
                   b |-> src[sampleIdx + 2] + rest.b,
                   count |-> 1 + rest.count]
             ELSE [rest EXCEPT !.count = @ + 1]

\* The kx loop from kx on: the sums and count of the in-bounds samples of
\* kernel row ky.
RECURSIVE VideoProcessor_kxLoop(_, _, _, _, _, _, _, _)
VideoProcessor_kxLoop(src, x, y, radius, iw, ih, ky, kx) ==
    IF kx > radius THEN NoSums
    ELSE LET sampleX == x + kx
             sampleY == y + ky
             sampleIdx == (sampleY * iw + sampleX) * 4
             rest == VideoProcessor_kxLoop(src, x, y, radius, iw, ih, ky, kx + 1)
         IN  IF sampleX >= 0 /\ sampleX < iw /\ sampleY >= 0 /\ sampleY < ih
             THEN [r |-> src[sampleIdx] + rest.r,
                   g |-> src[sampleIdx + 1] + rest.g,
                   b |-> src[sampleIdx + 2] + rest.b,
                   count |-> 1 + rest.count]
             ELSE rest

\* The ky loop ending at ky = 0: the rows below the pixel are left out.
RECURSIVE VideoProcessor_kyLoop_upperHalf(_, _, _, _, _, _, _)
VideoProcessor_kyLoop_upperHalf(src, x, y, radius, iw, ih, ky) ==
    IF ky > 0 THEN NoSums
    ELSE AddSums(VideoProcessor_kxLoop(src, x, y, radius, iw, ih, ky, 0 - radius),
                 VideoProcessor_kyLoop_upperHalf(src, x, y, radius, iw, ih, ky + 1))

\* The ky loop from ky on.
RECURSIVE VideoProcessor_kyLoop(_, _, _, _, _, _, _)
VideoProcessor_kyLoop(src, x, y, radius, iw, ih, ky) ==
    IF ky > radius THEN NoSums
    ELSE AddSums(VideoProcessor_kxLoop(src, x, y, radius, iw, ih, ky, 0 - radius),
                 VideoProcessor_kyLoop(src, x, y, radius, iw, ih, ky + 1))

\* blurPixel writing an opaque alpha instead of the source pixel's.
VideoProcessor_blurPixel_opaqueAlpha(h, target, source, x, y, radius, iw, ih) ==
    LET src == h[source]
        s == VideoProcessor_kyLoop(src, x, y, radius, iw, ih, 0 - radius)
        targetIdx == (y * iw + x) * 4
        t1 == WriteByte(h[target], targetIdx, ToUint8Clamp(s.r, s.count))
        t2 == WriteByte(t1, targetIdx + 1, ToUint8Clamp(s.g, s.count))
        t3 == WriteByte(t2, targetIdx + 2, ToUint8Clamp(s.b, s.count))
        t4 == WriteByte(t3, targetIdx + 3, 255)
    IN  [h EXCEPT ![target] = t4]

\* The body of the x loop: one pixel summed from source, written to target.
VideoProcessor_blurPixel(h, target, source, x, y, radius, iw, ih) ==
    LET src == h[source]
        s == VideoProcessor_kyLoop(src, x, y, radius, iw, ih, 0 - radius)
        targetIdx == (y * iw + x) * 4
        t1 == WriteByte(h[target], targetIdx,
                  IF s.count > 0 THEN ToUint8Clamp(s.r, s.count)
                  ELSE ReadByte(src, targetIdx))
        t2 == WriteByte(t1, targetIdx + 1,
                  IF s.count > 0 THEN ToUint8Clamp(s.g, s.count)
                  ELSE ReadByte(src, targetIdx + 1))
        t3 == WriteByte(t2, targetIdx + 2,
                  IF s.count > 0 THEN ToUint8Clamp(s.b, s.count)
                  ELSE ReadByte(src, targetIdx + 2))
        t4 == WriteByte(t3, targetIdx + 3, ReadByte(src, targetIdx + 3))
    IN  [h EXCEPT ![target] = t4]

\* The x loop up to x: the heap once the pixels regionX .. x - 1 of row y
\* are written.
RECURSIVE VideoProcessor_xLoop(_, _, _, _, _, _, _, _, _)
VideoProcessor_xLoop(h, target, source, region, radius, iw, ih, y, x) ==
    IF x <= region.x THEN h
    ELSE VideoProcessor_blurPixel(
             VideoProcessor_xLoop(h, target, source, region, radius, iw, ih, y, x - 1),
             target, source, x - 1, y, radius, iw, ih)

\* The y loop up to y: the heap once the rows regionY .. y - 1 are written.
RECURSIVE VideoProcessor_yLoop(_, _, _, _, _, _, _, _)
VideoProcessor_yLoop(h, target, source, region, radius, iw, ih, y) ==
    IF y <= region.y THEN h
    ELSE VideoProcessor_xLoop(
             VideoProcessor_yLoop(h, target, source, region, radius, iw, ih, y - 1),
             target, source, region, radius, iw, ih, y - 1, region.x + region.width)

\* applyBlurEffect writing into the buffer it reads from.
VideoProcessor_applyBlurEffect_inPlace(h, targetPixels, sourcePixels, region, radius, iw, ih) ==
    VideoProcessor_yLoop(h, sourcePixels, sourcePixels, region, radius, iw, ih,
        region.y + region.height)

VideoProcessor_applyBlurEffect(h, targetPixels, sourcePixels, region, radius, iw, ih) ==
    VideoProcessor_yLoop(h, targetPixels, sourcePixels, region, radius, iw, ih,
        region.y + region.height)

(***************************************************************************)
(* removeWatermark (image path) and blurWatermark (video path).  Each      *)
(* returns the heap after the call and what the call gave back.            *)
(***************************************************************************)
NoImage == [width |-> 0, height |-> 0, data |-> 0]

\* The validation of removeWatermark without its check of the right edge.
ImageProcessor_regionInvalid_noRightEdge(region, iw, ih) ==
    \/ region.x < 0
    \/ region.y < 0
    \/ region.y + region.height > ih
    \/ region.width <= 0
    \/ region.height <= 0

\* The validation of removeWatermark: what makes it throw.
ImageProcessor_regionInvalid(region, iw, ih) ==
    \/ region.x < 0
    \/ region.y < 0
    \/ region.x + region.width > iw
    \/ region.y + region.height > ih
    \/ region.width <= 0
    \/ region.height <= 0

\* The validation of blurWatermark without its check of the bottom edge.
VideoProcessor_regionInvalid_noBottomEdge(region, iw, ih) ==
    \/ region.x < 0
    \/ region.y < 0
    \/ region.x + region.width > iw
    \/ region.width <= 0
    \/ region.height <= 0

\* The validation of blurWatermark: what makes it return the frame as it is.
VideoProcessor_regionInvalid(region, iw, ih) ==
    \/ region.x < 0
    \/ region.y < 0
    \/ region.x + region.width > iw
    \/ region.y + region.height > ih
    \/ region.width <= 0
    \/ region.height <= 0

ImageProcessor_removeWatermark(h, image, region) ==
    IF ImageProcessor_regionInvalid(region, image.width, image.height)
    THEN [heap |-> h, thrown |-> TRUE, value |-> NoImage]
    ELSE LET originalPixels == image.data
             h1 == NewUint8ClampedArray(h, originalPixels)
             processedPixels == Len(h1)
             blurRadius == ImageProcessor_calculateBlurRadius(region.width, region.height)
             h2 == ImageProcessor_applyBlurEffect(h1, processedPixels, originalPixels,
                       region, blurRadius, image.width, image.height)
         IN  [heap |-> h2, thrown |-> FALSE,
              value |-> [width |-> image.width, height |-> image.height,
                         data |-> processedPixels]]

VideoProcessor_blurWatermark(h, frameData, region) ==
    IF VideoProcessor_regionInvalid(region, frameData.width, frameData.height)
    THEN [heap |-> h, thrown |-> FALSE, value |-> frameData]
    ELSE LET originalPixels == frameData.data
             h1 == NewUint8ClampedArray(h, originalPixels)
             processedPixels == Len(h1)
             blurRadius == VideoProcessor_calculateBlurRadius(region.width, region.height)
             h2 == VideoProcessor_applyBlurEffect(h1, processedPixels, originalPixels,
                       region, blurRadius, frameData.width, frameData.height)
         IN  [heap |-> h2, thrown |-> FALSE,
              value |-> [width |-> frameData.width, height |-> frameData.height,
                         data |-> processedPixels]]

(***************************************************************************)
(* The inputs of one blur call: a picture of 1 .. MaxWidth by              *)
(* 1 .. MaxHeight pixels and a region, valid or not.                       *)
(***************************************************************************)
Patterns == {0, 1, 2}

\* The bytes of a test picture: 0 is one colour everywhere, 1 a checkerboard
\* of opaque white and transparent black, the others vary byte by byte.
PixelPattern(seed, iw, ih) ==
    [idx \in 0 .. (iw * ih * 4 - 1) |->
        LET c == idx % 4
            x == (idx \div 4) % iw
            y == (idx \div 4) \div iw
        IN  IF seed = 0 THEN <<200, 100, 50, 255>>[c + 1]
            ELSE IF seed = 1 THEN (IF (x + y) % 2 = 0 THEN 255 ELSE 0)
            ELSE (idx * idx * 7 + seed * idx * 13 + seed * 5) % 256]

Regions(iw, ih) ==
    [x : -1 .. (iw - 1), y : -1 .. (ih - 1),
     width : -1 .. (iw + 1), height : -1 .. (ih + 1)]

NoOutcome == [op |-> "none", thrown |-> FALSE, value |-> NoImage, radius |-> 0]

InitBlur ==
    /\ pattern \in Patterns
    /\ \E iw \in 1 .. MaxWidth, ih \in 1 .. MaxHeight :
          /\ imageData = [width |-> iw, height |-> ih, data |-> 1]
          /\ heap = <<PixelPattern(pattern, iw, ih)>>
          /\ watermarkRegion \in Regions(iw, ih)
    /\ outcome = NoOutcome

IdleBlur ==
    /\ pattern = 0
    /\ imageData = NoImage
    /\ heap = <<>>
    /\ watermarkRegion = [x |-> 0, y |-> 0, width |-> 0, height |-> 0]
    /\ outcome = NoOutcome

\* imageProcessor.removeWatermark(imageData, watermarkRegion)
RemoveWatermark ==
    /\ outcome.op = "none"
    /\ LET r == ImageProcessor_removeWatermark(heap, imageData, watermarkRegion)
       IN  /\ heap' = r.heap
           /\ outcome' = [op |-> "removeWatermark", thrown |-> r.thrown,
                          value |-> r.value,
                          radius |-> ImageProcessor_calculateBlurRadius(
                                         watermarkRegion.width, watermarkRegion.height)]
    /\ UNCHANGED <<pattern, imageData, watermarkRegion, radiusVars, uiVars, videoVars>>

\* imageProcessor.removeWatermark(result, watermarkRegion): the blur applied
\* again, to the ImageData a first call returned.
RemoveWatermarkAgain ==
    /\ outcome.op = "removeWatermark"
    /\ ~outcome.thrown
    /\ LET r == ImageProcessor_removeWatermark(heap, outcome.value, watermarkRegion)
       IN  /\ heap' = r.heap
           /\ outcome' = [outcome EXCEPT !.op = "removeWatermark twice",
                                         !.thrown = r.thrown, !.value = r.value]
    /\ UNCHANGED <<pattern, imageData, watermarkRegion, radiusVars, uiVars, videoVars>>

\* videoProcessor.blurWatermark(frameData, watermarkRegion)
BlurWatermark ==
    /\ outcome.op = "none"
    /\ LET r == VideoProcessor_blurWatermark(heap, imageData, watermarkRegion)
       IN  /\ heap' = r.heap
           /\ outcome' = [op |-> "blurWatermark", thrown |-> r.thrown,
                          value |-> r.value,
                          radius |-> VideoProcessor_calculateBlurRadius(
                                         watermarkRegion.width, watermarkRegion.height)]
    /\ UNCHANGED <<pattern, imageData, watermarkRegion, radiusVars, uiVars, videoVars>>

\* applyBlurEffect called as removeWatermark and blurWatermark call it (a
\* fresh copy as target, a region inside the image), at any radius.
ImageApplyBlurEffect ==
    /\ outcome.op = "none"
    /\ ~ImageProcessor_regionInvalid(watermarkRegion, imageData.width, imageData.height)
    /\ \E radius \in 2 .. MaxRadius :
          LET h1 == NewUint8ClampedArray(heap, imageData.data)
          IN  /\ heap' = ImageProcessor_applyBlurEffect(h1, Len(h1), imageData.data,
                             watermarkRegion, radius, imageData.width, imageData.height)
              /\ outcome' = [op |-> "ImageProcessor.applyBlurEffect", thrown |-> FALSE,
                             value |-> [imageData EXCEPT !.data = Len(h1)],
                             radius |-> radius]
    /\ UNCHANGED <<pattern, imageData, watermarkRegion, radiusVars, uiVars, videoVars>>

VideoApplyBlurEffect ==
    /\ outcome.op = "none"
    /\ ~VideoProcessor_regionInvalid(watermarkRegion, imageData.width, imageData.height)
    /\ \E radius \in 2 .. MaxRadius :
          LET h1 == NewUint8ClampedArray(heap, imageData.data)
          IN  /\ heap' = VideoProcessor_applyBlurEffect(h1, Len(h1), imageData.data,
                             watermarkRegion, radius, imageData.width, imageData.height)
              /\ outcome' = [op |-> "VideoProcessor.applyBlurEffect", thrown |-> FALSE,
                             value |-> [imageData EXCEPT !.data = Len(h1)],
                             radius |-> radius]
    /\ UNCHANGED <<pattern, imageData, watermarkRegion, radiusVars, uiVars, videoVars>>

(***************************************************************************)
(* The inputs of one calculateBlurRadius call: region sides around every   *)
(* multiple of 20, where floor(minDim * 0.05) steps.                       *)
(***************************************************************************)
RadiusInputs ==
    {-1, 0, 1} \cup {20 * k + d : k \in 1 .. MaxTwenties, d \in {-1, 0, 1}}

InitRadius ==
    /\ regionWidth \in RadiusInputs
    /\ regionHeight \in RadiusInputs
    /\ radiusResult = [op |-> "none", value |-> 0]

IdleRadius ==
    /\ regionWidth = 0
    /\ regionHeight = 0
    /\ radiusResult = [op |-> "none", value |-> 0]

ImageCalculateBlurRadius ==
    /\ radiusResult.op = "none"
    /\ radiusResult' = [op |-> "image",
           value |-> ImageProcessor_calculateBlurRadius(regionWidth, regionHeight)]
    /\ UNCHANGED <<regionWidth, regionHeight, blurVars, videoVars, uiVars>>

VideoCalculateBlurRadius ==
    /\ radiusResult.op = "none"
    /\ radiusResult' = [op |-> "video",
           value |-> VideoProcessor_calculateBlurRadius(regionWidth, regionHeight)]
    /\ UNCHANGED <<regionWidth, regionHeight, blurVars, videoVars, uiVars>>

(***************************************************************************)
(* The numbers processVideo computes with.  A duration is NaN, Infinity    *)
(* or num / den seconds with den a power of two; a count of frames is NaN, *)
(* Infinity or an integer.                                                 *)
(***************************************************************************)
NaN == [kind |-> "NaN", value |-> 0]
Infinity == [kind |-> "Infinity", value |-> 0]
Number(n) == [kind |-> "number", value |-> n]
Undefined == [kind |-> "undefined", value |-> 0]

isFinite(v) == v.kind = "number"

\* a <= n and n < b for an integer n: false whenever the other side is NaN.
LessOrEqual(a, n) == a.kind = "number" /\ a.value <= n
LessThan(n, b) == b.kind = "Infinity" \/ (b.kind = "number" /\ n < b.value)

\* Math.min(30, videoElement.captureFrameRate || 30)
ProcessingFrameRate(captureFrameRate) ==
    Min(30, IF captureFrameRate.kind = "undefined" \/ captureFrameRate.value = 0
            THEN 30 ELSE captureFrameRate.value)

\* Math.floor(duration * processingFrameRate)
TotalFramesToProcess(duration, rate) ==
    IF duration.kind # "number" THEN [kind |-> duration.kind, value |-> 0]
    ELSE IF duration.num = 0 THEN Number(0)
    ELSE LET magnitude == IF duration.num > 0 THEN duration.num ELSE 0 - duration.num
             p == Split(DoubleTimes(DoubleDiv(magnitude, duration.den), rate))
         IN  IF duration.num > 0 THEN Number(p.int)
             ELSE Number(0 - (p.int + (IF p.half \/ p.rest THEN 1 ELSE 0)))

\* The test of line 135 without its isFinite.
InvalidFrameCount_noFiniteCheck(total) == LessOrEqual(total, 0)

\* totalFramesToProcess <= 0 || !isFinite(totalFramesToProcess)
InvalidFrameCount(total) == LessOrEqual(total, 0) \/ ~isFinite(total)

\* Math.floor(((i + 1) / totalFramesToProcess) * 100)
ProgressPercent(i, total) == DoubleFloor(DoubleTimes(DoubleDiv(i + 1, total), 100))

(***************************************************************************)
(* The video element and the canvas.  The element shows the picture of     *)
(* the time it last finished seeking to; a seek requested by setting       *)
(* currentTime ends later, in a seeked event.  drawImage draws nothing     *)
(* while readyState is below HAVE_CURRENT_DATA.                            *)
(***************************************************************************)
HaveNothing == 0
HaveMetadata == 1
HaveCurrentData == 2
NoHandler == 0

\* The picture of the video at a time: a different one every 1/32 s.
PictureAt(time, w, h) == PixelPattern(2 + (time.num * 32) \div time.den, w, h)

\* canvas.width = w; canvas.height = h: the bitmap is cleared.
ResizeCanvas(w, h) ==
    [width |-> w, height |-> h, bitmap |-> [idx \in 0 .. (w * h * 4 - 1) |-> 0]]

\* ctx.drawImage(videoElement, 0, 0, canvas.width, canvas.height)
DrawImage(c, video) ==
    IF video.readyState >= HaveCurrentData
    THEN [c EXCEPT !.bitmap = PictureAt(video.shown, c.width, c.height)]
    ELSE c

\* ctx.getImageData(0, 0, canvas.width, canvas.height), allocated on h.
GetImageData(h, c) ==
    [heap |-> Append(h, c.bitmap),
     value |-> [width |-> c.width, height |-> c.height, data |-> Len(h) + 1]]

\* ctx.putImageData(frame, 0, 0)
PutImageData(c, h, frame) ==
    [c EXCEPT !.bitmap =
        [idx \in DOMAIN c.bitmap |->
            LET x == (idx \div 4) % c.width
                y == (idx \div 4) \div c.width
            IN  IF x < frame.width /\ y < frame.height
                THEN h[frame.data][(y * frame.width + x) * 4 + (idx % 4)]
                ELSE c.bitmap[idx]]]

\* extractFrame's draw of the element, at lines 21-32 and again at 45-48.
CaptureFrame(h, video) ==
    GetImageData(h, DrawImage(ResizeCanvas(video.videoWidth, video.videoHeight), video))

(***************************************************************************)
(* The inputs of one processVideo run.                                     *)
(***************************************************************************)
Durations ==
    {[kind |-> "NaN", num |-> 0, den |-> 1], [kind |-> "Infinity", num |-> 0, den |-> 1]}
    \cup {[kind |-> "number", num |-> n, den |-> 32] : n \in -1 .. MaxDurationTicks}

CaptureFrameRates == {Undefined, Number(16), Number(60)}

\* The whole frame, its first pixel, and a region past its right edge.
VideoRegions ==
    {[x |-> 0, y |-> 0, width |-> FrameWidth, height |-> FrameHeight],
     [x |-> 0, y |-> 0, width |-> 1, height |-> 1],
     [x |-> 1, y |-> 0, width |-> FrameWidth, height |-> FrameHeight]}

NoAssembly ==
    [invoked |-> FALSE, frames |-> <<>>, frameRate |-> 0, recorder |-> "none",
     chunks |-> <<>>, frameIndex |-> 0, timer |-> FALSE, events |-> <<>>,
     drawn |-> <<>>, errored |-> FALSE,
     promise |-> [state |-> "pending", error |-> "", blob |-> <<>>]]

Pending == [state |-> "pending", error |-> "", blob |-> <<>>]

\* The canvas the constructor creates; no pixel of it is read before it is
\* resized.
NewCanvas == [width |-> 300, height |-> 150, bitmap |-> <<>>]

\* A VideoProcessor just constructed and not yet called.
NewVideoProcessor ==
    /\ canvas = NewCanvas
    /\ pc = "notCalled"
    /\ processingFrameRate = 0
    /\ totalFramesToProcess = Number(0)
    /\ sampleIndex = 0
    /\ processedFrames = <<>>
    /\ extractions = <<>>
    /\ reported = <<>>
    /\ assembly = NoAssembly
    /\ processVideoPromise = Pending

InitVideo ==
    /\ \E duration \in Durations, rate \in CaptureFrameRates,
          readyState \in {HaveNothing, HaveMetadata, HaveCurrentData},
          sized \in BOOLEAN :
          /\ readyState = HaveNothing => ~sized
          /\ readyState = HaveCurrentData => sized
          /\ videoElement =
                [duration |-> duration, captureFrameRate |-> rate,
                 videoWidth |-> IF sized THEN FrameWidth ELSE 0,
                 videoHeight |-> IF sized THEN FrameHeight ELSE 0,
                 readyState |-> readyState,
                 currentTime |-> [num |-> 0, den |-> 1],
                 shown |-> [num |-> 0, den |-> 1],
                 seeking |-> FALSE,
                 onseeked |-> NoHandler, onerror |-> NoHandler,
                 onloadedmetadata |-> FALSE]
    /\ watermarkRegion \in VideoRegions
    /\ updateProgressCallback \in BOOLEAN
    /\ heap = <<>>
    /\ NewVideoProcessor
    /\ pattern = 0
    /\ imageData = NoImage
    /\ outcome = NoOutcome

\* No video loaded.
NoVideo ==
    [duration |-> [kind |-> "NaN", num |-> 0, den |-> 1],
     captureFrameRate |-> Undefined,
     videoWidth |-> 0, videoHeight |-> 0, readyState |-> HaveNothing,
     currentTime |-> [num |-> 0, den |-> 1], shown |-> [num |-> 0, den |-> 1],
     seeking |-> FALSE, onseeked |-> NoHandler, onerror |-> NoHandler,
     onloadedmetadata |-> FALSE]

IdleVideo ==
    /\ videoElement = NoVideo
    /\ updateProgressCallback = FALSE
    /\ NewVideoProcessor

(***************************************************************************)
(* processVideo.  Between two awaits the code runs without interruption:   *)
(* while pc is "loop" the next step of the run is the only one enabled.    *)
(***************************************************************************)
Rejected(message) == [state |-> "rejected", error |-> message, blob |-> <<>>]
Fulfilled(chunks) == [state |-> "fulfilled", error |-> "", blob |-> chunks]

\* processedFrames.push(processedFrame) putting the frame first.
processedFrames_push_front(frames, frame) == <<frame>> \o frames

\* processedFrames.push(processedFrame)
processedFrames_push(frames, frame) == Append(frames, frame)

\* The test of line 180 never finding the sequence empty.
NoFramesProcessed_never(frames) == FALSE

\* processedFrames.length === 0
NoFramesProcessed(frames) == Len(frames) = 0

\* Lines 157-160: what follows the wait for the metadata.
AfterMetadata(c) ==
    IF c.width = 0 \/ c.height = 0
    THEN /\ pc' = "failed"
         /\ processVideoPromise' =
                Rejected("Could not determine video dimensions for processing.")
    ELSE /\ pc' = "loop"
         /\ UNCHANGED processVideoPromise

\* Lines 167-178: what follows the await of extractFrame, in the try when
\* the promise was fulfilled with frameData and in the catch when it was
\* rejected, up to the loop's i++.  h is the heap at that point.
ContinueLoop(h, fulfilled, frameData) ==
    /\ IF fulfilled
       THEN LET r == VideoProcessor_blurWatermark(h, frameData, watermarkRegion)
            IN  /\ heap' = r.heap
                /\ processedFrames' = processedFrames_push(processedFrames, r.value)
                /\ reported' =
                      IF updateProgressCallback
                      THEN Append(reported,
                               ProgressPercent(sampleIndex, totalFramesToProcess.value))
                      ELSE reported
       ELSE /\ heap' = h
            /\ UNCHANGED <<processedFrames, reported>>
    /\ sampleIndex' = sampleIndex + 1
    /\ pc' = "loop"

\* frames[frameIndex] taken from the end of the list.
NextFrameToDraw_fromEnd(frames, frameIndex) == frames[Len(frames) - frameIndex]

\* frames[frameIndex] of line 229, frameIndex counting from 0.
NextFrameToDraw(frames, frameIndex) == frames[frameIndex + 1]

\* Lines 187-242 up to the first setTimeout: the canvas takes the first
\* frame's size, the recorder is built (the constructor throws where the
\* browser cannot record video/webm;codecs=vp9) and started, and
\* drawNextFrame puts the first frame.
AssembleVideo(frames, frameRate) ==
    IF Len(frames) = 0
    THEN /\ assembly' = [assembly EXCEPT !.invoked = TRUE, !.frameRate = frameRate,
                                         !.promise = Rejected("No frames to assemble.")]
         /\ UNCHANGED canvas
    ELSE \E supported \in BOOLEAN :
            LET c1 == ResizeCanvas(frames[1].width, frames[1].height)
            IN  IF supported
                THEN /\ canvas' = PutImageData(c1, heap, NextFrameToDraw(frames, 0))
                     /\ assembly' = [invoked |-> TRUE, frames |-> frames,
                                     frameRate |-> frameRate, recorder |-> "recording",
                                     chunks |-> <<>>, frameIndex |-> 1, timer |-> TRUE,
                                     events |-> <<>>,
                                     drawn |-> <<NextFrameToDraw(frames, 0)>>,
                                     errored |-> FALSE, promise |-> Pending]
                ELSE /\ canvas' = c1
                     /\ assembly' = [assembly EXCEPT !.invoked = TRUE, !.frames = frames,
                                         !.frameRate = frameRate,
                                         !.promise = Rejected("NotSupportedError")]

\* return this.assembleVideo(...) at line 183: processVideo's promise is
\* settled as assembleVideo's is.
Adopt(promise) ==
    /\ processVideoPromise' = promise
    /\ pc' = IF promise.state = "pending" THEN "assembling"
             ELSE IF promise.state = "fulfilled" THEN "done" ELSE "failed"

\* videoProcessor.processVideo(videoElement, watermarkRegion, callback), to
\* its first await or to the top of the loop.
ProcessVideo ==
    /\ pc = "notCalled"
    /\ LET rate == ProcessingFrameRate(videoElement.captureFrameRate)
           total == TotalFramesToProcess(videoElement.duration, rate)
           c1 == ResizeCanvas(videoElement.videoWidth, videoElement.videoHeight)
       IN  /\ processingFrameRate' = rate
           /\ totalFramesToProcess' = total
           /\ IF InvalidFrameCount(total)
              THEN /\ pc' = "failed"
                   /\ processVideoPromise' =
                          Rejected("Invalid video duration or frame rate, cannot process.")
                   /\ UNCHANGED <<videoElement, canvas>>
              ELSE IF videoElement.videoWidth > 0 /\ videoElement.videoHeight > 0
              THEN /\ pc' = "loop"
                   /\ canvas' = c1
                   /\ UNCHANGED <<videoElement, processVideoPromise>>
              ELSE /\ videoElement' = [videoElement EXCEPT !.onloadedmetadata = TRUE]
                   /\ IF videoElement.readyState >= HaveMetadata
                      THEN /\ canvas' = c1
                           /\ AfterMetadata(c1)
                      ELSE /\ pc' = "awaitMetadata"
                           /\ UNCHANGED <<canvas, processVideoPromise>>
    /\ UNCHANGED <<heap, pattern, imageData, watermarkRegion, outcome, radiusVars, uiVars>>
    /\ UNCHANGED <<updateProgressCallback, sampleIndex, processedFrames, extractions, reported, assembly>>

\* The element's loadedmetadata event, and onloadedmetadata if installed.
LoadedMetadata ==
    /\ pc # "loop"
    /\ videoElement.readyState = HaveNothing
    /\ \E sized \in BOOLEAN :
          LET v1 == [videoElement EXCEPT !.readyState = HaveMetadata,
                                         !.videoWidth = IF sized THEN FrameWidth ELSE 0,
                                         !.videoHeight = IF sized THEN FrameHeight ELSE 0]
              c1 == ResizeCanvas(v1.videoWidth, v1.videoHeight)
          IN  /\ videoElement' = v1
              /\ IF videoElement.onloadedmetadata
                 THEN /\ canvas' = c1
                      /\ IF pc = "awaitMetadata" THEN AfterMetadata(c1)
                         ELSE UNCHANGED <<pc, processVideoPromise>>
                 ELSE UNCHANGED <<canvas, pc, processVideoPromise>>
    /\ UNCHANGED <<heap, pattern, imageData, watermarkRegion, outcome, radiusVars, uiVars>>
    /\ UNCHANGED <<updateProgressCallback, processingFrameRate, totalFramesToProcess, sampleIndex, processedFrames, extractions, reported, assembly>>

\* The element's loadeddata event: the picture of the current position is
\* there to draw.
LoadedData ==
    /\ pc # "loop"
    /\ videoElement.readyState = HaveMetadata
    /\ videoElement.videoWidth > 0 /\ videoElement.videoHeight > 0
    /\ ~videoElement.seeking
    /\ videoElement' = [videoElement EXCEPT !.readyState = HaveCurrentData]
    /\ UNCHANGED <<blurVars, radiusVars, uiVars, canvas, updateProgressCallback, loopVars, assembly, processVideoPromise>>

\* One turn of the loop from its test to the await of extractFrame(i), and
\* through lines 167-178 too when the fallback of line 42 resolves at once.
ExtractFrame ==
    /\ pc = "loop"
    /\ LessThan(sampleIndex, totalFramesToProcess)
    /\ LET timeInSeconds == [num |-> sampleIndex, den |-> processingFrameRate]
           promise == Len(extractions) + 1
           v1 == [videoElement EXCEPT !.currentTime = timeInSeconds, !.seeking = TRUE,
                                      !.onseeked = promise, !.onerror = promise]
           frame == CaptureFrame(heap, v1)
       IN  /\ videoElement' = v1
           /\ IF v1.readyState >= HaveCurrentData /\ v1.videoWidth > 0 /\ v1.videoHeight > 0
              THEN /\ canvas' = DrawImage(ResizeCanvas(v1.videoWidth, v1.videoHeight), v1)
                   /\ extractions' = Append(extractions,
                          [state |-> "fulfilled", value |-> frame.value,
                           time |-> timeInSeconds])
                   /\ ContinueLoop(frame.heap, TRUE, frame.value)
              ELSE /\ extractions' = Append(extractions,
                          [state |-> "pending", value |-> NoImage,
                           time |-> timeInSeconds])
                   /\ pc' = "awaitExtract"
                   /\ UNCHANGED <<canvas, heap, processedFrames, reported, sampleIndex>>
    /\ UNCHANGED <<pattern, imageData, watermarkRegion, outcome, radiusVars, uiVars>>
    /\ UNCHANGED <<updateProgressCallback, processingFrameRate, totalFramesToProcess, assembly, processVideoPromise>>

\* The element's seeked event and the onseeked installed last: the seek
\* ends with the picture of currentTime shown, drawable or not.
VideoSeeked ==
    /\ pc # "loop"
    /\ videoElement.seeking
    /\ \E readyState \in {HaveMetadata, HaveCurrentData} :
          LET v1 == [videoElement EXCEPT !.seeking = FALSE,
                                         !.shown = videoElement.currentTime,
                                         !.readyState = readyState]
              promise == videoElement.onseeked
              awaited == extractions[promise].state = "pending"
              frame == CaptureFrame(heap, v1)
          IN  /\ videoElement' = v1
              /\ IF v1.videoWidth = 0 \/ v1.videoHeight = 0
                 THEN /\ UNCHANGED canvas
                      /\ IF awaited
                         THEN /\ extractions' = [extractions EXCEPT ![promise] =
                                     [@ EXCEPT !.state = "rejected"]]
                              /\ ContinueLoop(heap, FALSE, NoImage)
                         ELSE UNCHANGED <<extractions, heap, processedFrames, reported, sampleIndex, pc>>
                 ELSE /\ canvas' = DrawImage(ResizeCanvas(v1.videoWidth, v1.videoHeight), v1)
                      /\ IF awaited
                         THEN /\ extractions' = [extractions EXCEPT ![promise] =
                                     [@ EXCEPT !.state = "fulfilled",
                                               !.value = frame.value]]
                              /\ ContinueLoop(frame.heap, TRUE, frame.value)
                         ELSE UNCHANGED <<extractions, heap, processedFrames, reported, sampleIndex, pc>>
    /\ UNCHANGED <<pattern, imageData, watermarkRegion, outcome, radiusVars, uiVars>>
    /\ UNCHANGED <<updateProgressCallback, processingFrameRate, totalFramesToProcess, assembly, processVideoPromise>>

\* The element's error event and the onerror installed last; the seek under
\* way is given up.
VideoError ==
    /\ pc # "loop"
    /\ videoElement.onerror # NoHandler
    /\ videoElement' = [videoElement EXCEPT !.seeking = FALSE]
    /\ LET promise == videoElement.onerror
       IN  IF extractions[promise].state = "pending"
           THEN /\ extractions' = [extractions EXCEPT ![promise] =
                       [@ EXCEPT !.state = "rejected"]]
                /\ ContinueLoop(heap, FALSE, NoImage)
           ELSE UNCHANGED <<extractions, heap, processedFrames, reported, sampleIndex, pc>>
    /\ UNCHANGED <<pattern, imageData, watermarkRegion, outcome, radiusVars, uiVars, canvas>>
    /\ UNCHANGED <<updateProgressCallback, processingFrameRate, totalFramesToProcess, assembly, processVideoPromise>>

\* Lines 180-183: the loop is over.
AfterLoop ==
    /\ pc = "loop"
    /\ ~LessThan(sampleIndex, totalFramesToProcess)
    /\ IF NoFramesProcessed(processedFrames)
       THEN /\ pc' = "failed"
            /\ processVideoPromise' =
                   Rejected("No frames were processed. Video processing failed.")
            /\ UNCHANGED <<canvas, assembly>>
       ELSE /\ AssembleVideo(processedFrames, processingFrameRate)
            /\ Adopt(assembly'.promise)
    /\ UNCHANGED <<blurVars, radiusVars, uiVars, videoElement, updateProgressCallback>>
    /\ UNCHANGED <<processingFrameRate, totalFramesToProcess, sampleIndex, processedFrames, extractions, reported>>

\* resolve or reject inside assembleVideo: a promise settles once.
Settled(promise, settlement) ==
    IF promise.state = "pending" THEN settlement ELSE promise

\* What the settling of assembleVideo's promise does to the processVideo
\* run that returned it.
Follow ==
    IF pc = "assembling" THEN Adopt(assembly'.promise)
    ELSE UNCHANGED <<pc, processVideoPromise>>

\* The test of line 211 never finding chunks empty.
NoData_never(chunks) == FALSE

\* chunks.length === 0
NoData(chunks) == Len(chunks) = 0

\* videoProcessor.assembleVideo([], 30), called on its own.
AssembleVideoOfNoFrames ==
    /\ pc = "notCalled"
    /\ AssembleVideo(<<>>, 30)
    /\ pc' = "assembleVideo"
    /\ UNCHANGED <<blurVars, radiusVars, uiVars, videoElement, updateProgressCallback, processVideoPromise>>
    /\ UNCHANGED <<processingFrameRate, totalFramesToProcess, sampleIndex, processedFrames, extractions, reported>>

\* The test of line 228 giving up one frame early.
FramesLeft_butLast(frameIndex, frames) == frameIndex + 1 < Len(frames)

\* frameIndex < frames.length
FramesLeft(frameIndex, frames) == frameIndex < Len(frames)

\* drawNextFrame, called by the timer of line 234.
DrawNextFrame ==
    /\ assembly.timer
    /\ IF FramesLeft(assembly.frameIndex, assembly.frames)
       THEN LET frame == NextFrameToDraw(assembly.frames, assembly.frameIndex)
            IN  /\ canvas' = PutImageData(canvas, heap, frame)
                /\ assembly' = [assembly EXCEPT !.frameIndex = @ + 1,
                                                !.drawn = Append(@, frame)]
       ELSE /\ UNCHANGED canvas
            /\ assembly' =
                  IF assembly.recorder = "recording"
                  THEN [assembly EXCEPT !.timer = FALSE, !.recorder = "inactive",
                                        !.events = <<"dataavailable", "stop">>]
                  ELSE [assembly EXCEPT !.timer = FALSE]
    /\ UNCHANGED <<blurVars, radiusVars, uiVars, videoElement, updateProgressCallback, loopVars, processVideoPromise>>

\* mediaRecorder.ondataavailable, with data or without.
MediaRecorderDataAvailable ==
    /\ assembly.events # <<>>
    /\ Head(assembly.events) = "dataavailable"
    /\ \E size \in {0, 1} :
          assembly' = [assembly EXCEPT !.events = Tail(@),
                          !.chunks = IF size > 0 THEN Append(@, size) ELSE @]
    /\ UNCHANGED <<blurVars, radiusVars, uiVars, sourceVars, updateProgressCallback, loopVars, processVideoPromise>>

\* mediaRecorder.onstop
MediaRecorderStop ==
    /\ assembly.events # <<>>
    /\ Head(assembly.events) = "stop"
    /\ assembly' = [assembly EXCEPT !.events = Tail(@),
           !.promise = Settled(@,
               IF NoData(assembly.chunks)
               THEN Rejected("MediaRecorder produced no data. Video assembly failed.")
               ELSE Fulfilled(assembly.chunks))]
    /\ Follow
    /\ UNCHANGED <<blurVars, radiusVars, uiVars, sourceVars, updateProgressCallback>>
    /\ UNCHANGED <<processingFrameRate, totalFramesToProcess, sampleIndex, processedFrames, extractions, reported>>

\* mediaRecorder.onerror: the recorder fails while recording, then stops.
MediaRecorderError ==
    /\ assembly.recorder = "recording"
    /\ assembly' = [assembly EXCEPT !.recorder = "inactive", !.errored = TRUE,
           !.events = <<"dataavailable", "stop">>,
           !.promise = Settled(@, Rejected("MediaRecorder error during video assembly"))]
    /\ Follow
    /\ UNCHANGED <<blurVars, radiusVars, uiVars, sourceVars, updateProgressCallback>>
    /\ UNCHANGED <<processingFrameRate, totalFramesToProcess, sampleIndex, processedFrames, extractions, reported>>

(***************************************************************************)
(* The progress reports of a run of 1 .. MaxSamples samples, every one of  *)
(* them extracted: line 171 for i = 0, 1, ...                              *)
(***************************************************************************)
InitProgress ==
    /\ videoElement = NoVideo
    /\ canvas = NewCanvas
    /\ updateProgressCallback = TRUE
    /\ pc = "reporting"
    /\ processingFrameRate = 30
    /\ \E total \in 1 .. MaxSamples : totalFramesToProcess = Number(total)
    /\ sampleIndex = 0
    /\ processedFrames = <<>>
    /\ extractions = <<>>
    /\ reported = <<>>
    /\ assembly = NoAssembly
    /\ processVideoPromise = Pending

\* updateProgressCallback(Math.floor(((i + 1) / totalFramesToProcess) * 100))
ReportProgress ==
    /\ pc = "reporting"
    /\ sampleIndex < totalFramesToProcess.value
    /\ reported' = Append(reported,
                       ProgressPercent(sampleIndex, totalFramesToProcess.value))
    /\ sampleIndex' = sampleIndex + 1
    /\ UNCHANGED <<blurVars, radiusVars, uiVars, sourceVars, updateProgressCallback, assembly, processVideoPromise>>
    /\ UNCHANGED <<pc, processingFrameRate, totalFramesToProcess, processedFrames, extractions>>


(***************************************************************************)
(* The React components: WatermarkRemover and the canvas it mounts,        *)
(* VideoCanvas or ImageCanvas.  An event handler runs to its end and the   *)
(* component renders with the state it has set; an effect runs after a     *)
(* render in which one of its dependencies has changed, and handlers may   *)
(* run before it.  Objects (File, ImageData, Blob) are compared by         *)
(* identity: each is a record holding the name it was given when made.     *)
(* progress and videoMeta, which are only displayed, are left out, and a   *)
(* call of processVideo or toBlob is here only its promise.                *)
(***************************************************************************)
PreviewSide == 12      \* width and height of the picture shown, in pixels
MaxInvocations == 1    \* calls of processVideoWithBlur / processImage followed

NoFile == [name |-> "", type |-> ""]
Files ==
    { [name |-> "a.webm", type |-> "video"],
      [name |-> "b.webm", type |-> "video"],
      [name |-> "c.png", type |-> "image"] }

\* A Blob, with the file that the call that made it was working on.
NoBlob == [of |-> NoFile]
NewBlob(file) == [of |-> file]

\* --------------------------- WatermarkRemover ----------------------------
NoError == ""

NewWatermarkRemover ==
    [currentFile |-> NoFile, isProcessing |-> FALSE, error |-> NoError,
     processedFileBlob |-> NoBlob]

handleFileSelected(state, file) ==
    [state EXCEPT !.currentFile = file, !.processedFileBlob = NoBlob,
                  !.error = NoError, !.isProcessing = FALSE]

handleProcessingComplete(state, blob) ==
    [state EXCEPT !.processedFileBlob = blob, !.isProcessing = FALSE,
                  !.error = NoError]

handleProcessingError(state, errorMessage) ==
    [state EXCEPT !.error = errorMessage, !.isProcessing = FALSE,
                  !.processedFileBlob = NoBlob]

\* The download section is rendered: processedFileBlob && !error.
DownloadShown ==
    /\ watermarkRemover.processedFileBlob # NoBlob
    /\ watermarkRemover.error = NoError

\* ----------------------- the selection's geometry ------------------------
\* getBoundingClientRect() and the mouse give CSS pixels, the selection is
\* in canvas pixels: c = (e.clientX - rect.left) * (canvas.width /
\* rect.width).  The model keeps c * rect.width, an integer, in the place of
\* c (c * rect.height for y and height); the rectangles the model draws have
\* sides for which the division and the product are exact in doubles.
NoSelection == [x |-> 0, y |-> 0, width |-> 0, height |-> 0]
Origin == [x |-> 0, y |-> 0]

RectSides == {PreviewSide, 8, 16}

\* e.clientX - rect.left and e.clientY - rect.top of the mouse events tried:
\* the corners of the rectangle and the points next to them.
MousePoints(side) ==
    { [x |-> o, y |-> o] : o \in {0, 1, side - 1, side} }
        \cup { [x |-> side, y |-> 1] }

\* The corners alone.
CornerPoints(side) ==
    { [x |-> 0, y |-> 0], [x |-> side, y |-> side], [x |-> side, y |-> 1] }

\* The canvas, the rectangle it is shown in, and the mouse events tried.
Layouts ==
    { [width |-> PreviewSide, height |-> PreviewSide,
       rect |-> [width |-> s, height |-> s], mouse |-> MousePoints(s)] :
           s \in RectSides }

NoLayout ==
    [width |-> 0, height |-> 0, rect |-> [width |-> 1, height |-> 1], mouse |-> {}]

\* (e.clientX - rect.left) * scaleX and (e.clientY - rect.top) * scaleY
ToCanvas(e, lay) == [x |-> e.x * lay.width, y |-> e.y * lay.height]

Abs(n) == IF n < 0 THEN 0 - n ELSE n

\* The selection of handleUpdateSelection.
DragSelection(startPos, current) ==
    [x |-> Min(startPos.x, current.x), y |-> Min(startPos.y, current.y),
     width |-> Abs(current.x - startPos.x),
     height |-> Abs(current.y - startPos.y)]

\* selection.width > 10 && selection.height > 10
LargeEnough(sel, lay) ==
    /\ sel.width > 10 * lay.rect.width
    /\ sel.height > 10 * lay.rect.height

\* The region has whole numbers of pixels as x, y, width and height.
IsIntegerRegion(region, lay) ==
    /\ region.x % lay.rect.width = 0
    /\ region.width % lay.rect.width = 0
    /\ region.y % lay.rect.height = 0
    /\ region.height % lay.rect.height = 0

\* ------------------------------ ImageData --------------------------------
\* An ImageData of the components: what made it, the region handed to the
\* blur that made it, and a name that tells it from the object it replaces.
Null == [kind |-> "null", id |-> 0, region |-> NoSelection]

\* getImageData's result, replacing the picture held before.
NewPicture(before) ==
    [kind |-> "picture", id |-> IF before.id = 1 THEN 2 ELSE 1, region |-> NoSelection]

\* The blur's new ImageData(...), replacing what was displayed before.
NewBlurred(before, region) ==
    [kind |-> "blurred",
     id |-> IF before.kind = "blurred" /\ before.id = 1 THEN 2 ELSE 1,
     region |-> region]

\* ------------------------------ VideoCanvas ------------------------------
\* The hidden <video> of the component: HAVE_NOTHING until its metadata is
\* there, whether a seek is under way, whether its load failed, and whether
\* its duration is a finite number above 0.
NewVideoTag == [readyState |-> HaveNothing, seeking |-> FALSE, error |-> FALSE, durationValid |-> TRUE]

\* The dependencies of Effect 3.
VideoCanvas_previewDeps(c) ==
    <<c.previewFrame, c.selection, c.selectionMode, c.displayedFrameData>>

NoVideoCanvas ==
    [mounted |-> FALSE, videoFile |-> NoFile, previewFrame |-> Null,
     displayedFrameData |-> Null, selectionMode |-> FALSE,
     selection |-> NoSelection, isDragging |-> FALSE, startPos |-> Origin,
     isProcessing |-> FALSE, video |-> NewVideoTag,
     previewPending |-> FALSE]

\* The component after its first render and the effects of that render.
NewVideoCanvas(file) == [NoVideoCanvas EXCEPT !.mounted = TRUE, !.videoFile = file]

\* The render after the state was set: Effect 3 is to run if one of its
\* dependencies is not the object or value it was.
VideoCanvas_render(c, next) ==
    [next EXCEPT !.previewPending =
        c.previewPending \/ VideoCanvas_previewDeps(next) # VideoCanvas_previewDeps(c)]

\* Effect 1 on a new videoFile: the new src and the reset of the state.
VideoCanvas_loadEffect(c, file) ==
    VideoCanvas_render(c,
        [c EXCEPT !.videoFile = file, !.video = NewVideoTag,
                  !.previewFrame = Null, !.displayedFrameData = Null,
                  !.selection = NoSelection, !.selectionMode = FALSE,
                  !.isProcessing = FALSE])

\* videoProcessorRef.current.blurWatermark(previewFrame, selection): the
\* frame itself for a region that is not valid, a new ImageData otherwise.
VideoCanvas_blurWatermark(c, lay) ==
    IF VideoProcessor_regionInvalid(c.selection, lay.width * lay.rect.width,
                                    lay.height * lay.rect.height)
    THEN c.previewFrame
    ELSE NewBlurred(c.displayedFrameData, c.selection)

\* Effect 3.
VideoCanvas_previewEffect(c, lay) ==
    LET ran == [c EXCEPT !.previewPending = FALSE]
    IN  VideoCanvas_render(ran,
            IF c.previewFrame = Null
            THEN [ran EXCEPT !.displayedFrameData = Null]
            ELSE IF LargeEnough(c.selection, lay) /\ ~c.selectionMode
                 THEN [ran EXCEPT !.displayedFrameData = VideoCanvas_blurWatermark(c, lay)]
                 ELSE [ran EXCEPT !.displayedFrameData = c.previewFrame])

\* The Apply button is not disabled.
VideoCanvas_applyEnabled(c) ==
    /\ c.mounted
    /\ ~c.isProcessing
    /\ c.previewFrame # Null
    /\ c.selection.width # 0
    /\ c.selection.height # 0
    /\ ~c.selectionMode

\* The toggle button is not disabled.
VideoCanvas_toggleEnabled(c) == c.mounted /\ ~c.isProcessing /\ c.previewFrame # Null

\* -------------------------- calls of the Apply handlers -------------------
NewInvocation(component, file, region) ==
    [component |-> component, file |-> file, region |-> region,
     original |-> Null, pc |-> "called", calls |-> <<>>, started |-> FALSE,
     orphaned |-> FALSE, isProcessing |-> FALSE]

\* The call has returned (its promise is settled).
Terminated(inv) == inv.pc = "done"

\* The component of these calls is unmounted.
Orphan(invs, component) ==
    [i \in 1 .. Len(invs) |->
        IF invs[i].component = component
        THEN [invs[i] EXCEPT !.orphaned = TRUE]
        ELSE invs[i]]

\* ------------------------------ ImageCanvas ------------------------------
\* The dependencies of the blur-preview effect (imageProcessor never changes).
ImageCanvas_previewDeps(c) ==
    <<c.originalImage, c.selection, c.isDragging, c.selectionMode, c.displayedImageData>>

NoImageCanvas ==
    [mounted |-> FALSE, imageFile |-> NoFile, originalImage |-> Null,
     displayedImageData |-> Null, selectionMode |-> FALSE,
     selection |-> NoSelection, isDragging |-> FALSE, startPos |-> Origin,
     isProcessing |-> FALSE, loading |-> {}, orphanLoads |-> {},
     previewPending |-> FALSE]

\* The render after the state was set: the blur-preview effect is to run if
\* one of its dependencies is not the object or value it was.
ImageCanvas_render(c, next) ==
    [next EXCEPT !.previewPending =
        c.previewPending \/ ImageCanvas_previewDeps(next) # ImageCanvas_previewDeps(c)]

\* The load effect on a new imageFile, up to its await of loadImage.
ImageCanvas_loadEffect(c, file) ==
    [c EXCEPT !.imageFile = file, !.isProcessing = TRUE,
              !.loading = c.loading \cup {file}]

\* The component after its first render and the effects of that render.
NewImageCanvas(file) ==
    ImageCanvas_loadEffect([NoImageCanvas EXCEPT !.mounted = TRUE], file)

\* imageProcessor.removeWatermark(originalImage, selection): it throws for a
\* region that is not valid and gives a new ImageData otherwise.
ImageCanvas_removeWatermarkThrows(c, lay) ==
    ImageProcessor_regionInvalid(c.selection, lay.width * lay.rect.width,
                                 lay.height * lay.rect.height)

\* The blur-preview effect.
ImageCanvas_previewEffect(c, lay) ==
    LET ran == [c EXCEPT !.previewPending = FALSE]
    IN  ImageCanvas_render(ran,
            IF c.originalImage = Null
            THEN ran
            ELSE IF LargeEnough(c.selection, lay) /\ (c.isDragging \/ ~c.selectionMode)
                 THEN IF ImageCanvas_removeWatermarkThrows(c, lay)
                      THEN [ran EXCEPT !.displayedImageData = c.originalImage]
                      ELSE [ran EXCEPT !.displayedImageData =
                                NewBlurred(c.displayedImageData, c.selection)]
                 ELSE [ran EXCEPT !.displayedImageData = c.originalImage])

\* The canvas and the buttons are rendered: not the loading spinner.
ImageCanvas_shown(c) == c.mounted /\ ~(c.originalImage = Null /\ c.isProcessing)

\* The Apply button is not disabled.
ImageCanvas_applyEnabled(c) ==
    /\ ImageCanvas_shown(c)
    /\ ~c.isProcessing
    /\ c.originalImage # Null
    /\ c.selection.width # 0
    /\ c.selection.height # 0
    /\ ~c.selectionMode

\* The toggle button and the reset button are not disabled.
ImageCanvas_toggleEnabled(c) ==
    ImageCanvas_shown(c) /\ ~c.isProcessing /\ c.originalImage # Null

\* ------------------------- the components at rest -------------------------
IdleUi ==
    /\ watermarkRemover = NewWatermarkRemover
    /\ videoCanvas = NoVideoCanvas
    /\ imageCanvas = NoImageCanvas
    /\ layout = NoLayout
    /\ invocations = <<>>

coreVars == <<blurVars, radiusVars, videoVars>>

\* The call returns: it has called back and left the flag as given.
Returned(inv, callback, flag) ==
    [inv EXCEPT !.pc = "done", !.calls = Append(@, callback), !.isProcessing = flag]

\* The isProcessing flag of the component that made the call, as the call
\* leaves it (an unmounted component has none).
FlagLeft(inv, c) == ~inv.orphaned /\ c.isProcessing

\* --------------------------- WatermarkRemover ----------------------------
\* FileUpload's onDrop with an image or a video, or its "Remove file".
\* WatermarkRemover renders the canvas of the file's type; a component that
\* stays mounted runs its load effect for the new file.
FileSelected ==
    /\ \E file \in Files \cup {NoFile} :
         /\ file # watermarkRemover.currentFile
         /\ watermarkRemover' = handleFileSelected(watermarkRemover, file)
         /\ videoCanvas' =
               IF file.type = "video"
               THEN IF videoCanvas.mounted
                    THEN VideoCanvas_loadEffect(videoCanvas, file)
                    ELSE NewVideoCanvas(file)
               ELSE NoVideoCanvas
         /\ imageCanvas' =
               IF file.type = "image"
               THEN IF imageCanvas.mounted
                    THEN ImageCanvas_loadEffect(imageCanvas, file)
                    ELSE [NewImageCanvas(file) EXCEPT !.orphanLoads = imageCanvas.orphanLoads]
               ELSE [NoImageCanvas EXCEPT !.orphanLoads =
                         imageCanvas.orphanLoads \cup imageCanvas.loading]
         /\ invocations' =
               LET a == IF file.type = "video" THEN invocations
                        ELSE Orphan(invocations, "video")
               IN  IF file.type = "image" THEN a ELSE Orphan(a, "image")
    /\ UNCHANGED <<layout, coreVars>>

\* handleDownload, by the button of the download section.
HandleDownload ==
    /\ DownloadShown
    /\ IF watermarkRemover.processedFileBlob = NoBlob \/ watermarkRemover.currentFile = NoFile
       THEN watermarkRemover' = [watermarkRemover EXCEPT
                !.error = "No processed file available to download."]
       ELSE UNCHANGED watermarkRemover
    /\ UNCHANGED <<videoCanvas, imageCanvas, layout, invocations, coreVars>>

\* ------------------------------ VideoCanvas ------------------------------
\* Effect 2's handleLoadedMetadata.
PreviewLoadedMetadata ==
    /\ videoCanvas.mounted
    /\ videoCanvas.video.readyState = HaveNothing
    /\ ~videoCanvas.video.error
    /\ \E sized \in BOOLEAN, durationValid \in BOOLEAN :
         IF sized
         THEN /\ videoCanvas' = [videoCanvas EXCEPT !.video =
                     [readyState |-> HaveMetadata, seeking |-> TRUE,
                      error |-> FALSE, durationValid |-> durationValid]]
              /\ UNCHANGED watermarkRemover
         ELSE /\ videoCanvas' = [videoCanvas EXCEPT !.video =
                     [readyState |-> HaveMetadata, seeking |-> FALSE,
                      error |-> FALSE, durationValid |-> durationValid]]
              /\ watermarkRemover' = handleProcessingError(watermarkRemover,
                     "Video metadata is invalid or video is corrupt.")
    /\ UNCHANGED <<imageCanvas, layout, invocations, coreVars>>

\* Effect 2's handleSeeked.
PreviewSeeked ==
    /\ videoCanvas.mounted
    /\ videoCanvas.video.seeking
    /\ LET frame == NewPicture(videoCanvas.previewFrame)
       IN  videoCanvas' = VideoCanvas_render(videoCanvas, [videoCanvas EXCEPT !.video.seeking = FALSE,
                               !.previewFrame = frame, !.displayedFrameData = frame])
    /\ UNCHANGED <<watermarkRemover, imageCanvas, layout, invocations, coreVars>>

\* Effect 2's handleError.
PreviewError ==
    /\ videoCanvas.mounted
    /\ videoCanvas.video.readyState = HaveNothing
    /\ ~videoCanvas.video.error
    /\ videoCanvas' = [videoCanvas EXCEPT !.video.error = TRUE]
    /\ watermarkRemover' = handleProcessingError(watermarkRemover, "Error loading video")
    /\ UNCHANGED <<imageCanvas, layout, invocations, coreVars>>

\* Effect 3, after a render in which one of its dependencies has changed.
VideoPreviewEffect ==
    /\ videoCanvas.mounted
    /\ videoCanvas.previewPending
    /\ videoCanvas' = VideoCanvas_previewEffect(videoCanvas, layout)
    /\ UNCHANGED <<watermarkRemover, imageCanvas, layout, invocations, coreVars>>

VideoStartSelection ==
    /\ videoCanvas.mounted
    /\ videoCanvas.selectionMode
    /\ videoCanvas.previewFrame # Null
    /\ \E e \in layout.mouse :
         LET p == ToCanvas(e, layout)
         IN  videoCanvas' = VideoCanvas_render(videoCanvas, [videoCanvas EXCEPT !.isDragging = TRUE, !.startPos = p,
                 !.selection = [x |-> p.x, y |-> p.y, width |-> 0, height |-> 0]])
    /\ UNCHANGED <<watermarkRemover, imageCanvas, layout, invocations, coreVars>>

VideoUpdateSelection ==
    /\ videoCanvas.mounted
    /\ videoCanvas.isDragging
    /\ videoCanvas.selectionMode
    /\ \E e \in layout.mouse :
         videoCanvas' = VideoCanvas_render(videoCanvas, [videoCanvas EXCEPT !.selection =
             DragSelection(videoCanvas.startPos, ToCanvas(e, layout))])
    /\ UNCHANGED <<watermarkRemover, imageCanvas, layout, invocations, coreVars>>

\* handleEndSelection, on mouseup and on mouseleave.
VideoEndSelection ==
    /\ videoCanvas.mounted
    /\ videoCanvas.selectionMode
    /\ videoCanvas' =
          VideoCanvas_render(videoCanvas, IF LargeEnough(videoCanvas.selection, layout)
          THEN [videoCanvas EXCEPT !.isDragging = FALSE, !.selectionMode = FALSE]
          ELSE [videoCanvas EXCEPT !.isDragging = FALSE, !.selection = NoSelection,
                   !.displayedFrameData =
                       IF videoCanvas.previewFrame # Null THEN videoCanvas.previewFrame ELSE @])
    /\ UNCHANGED <<watermarkRemover, imageCanvas, layout, invocations, coreVars>>

VideoToggleSelectionMode ==
    /\ VideoCanvas_toggleEnabled(videoCanvas)
    /\ IF videoCanvas.selectionMode
       THEN /\ videoCanvas' = VideoCanvas_render(videoCanvas, [videoCanvas EXCEPT !.selectionMode = FALSE,
                   !.selection = NoSelection,
                   !.displayedFrameData =
                       IF videoCanvas.previewFrame # Null THEN videoCanvas.previewFrame ELSE @])
            /\ UNCHANGED watermarkRemover
       ELSE IF videoCanvas.previewFrame = Null
            THEN /\ watermarkRemover' = handleProcessingError(watermarkRemover,
                       "Please wait for the video preview to load before selecting a region.")
                 /\ UNCHANGED videoCanvas
            ELSE /\ videoCanvas' = VideoCanvas_render(videoCanvas, [videoCanvas EXCEPT !.selectionMode = TRUE,
                        !.selection = NoSelection,
                        !.displayedFrameData = videoCanvas.previewFrame])
                 /\ UNCHANGED watermarkRemover
    /\ UNCHANGED <<imageCanvas, layout, invocations, coreVars>>

\* processVideoWithBlur, by the Apply button, up to its await of processVideo.
\* (The button asks for a previewFrame, which a seeked event of a video with
\* metadata has set: the wait for loadedmetadata is not entered.)
VideoApply ==
    /\ VideoCanvas_applyEnabled(videoCanvas)
    /\ videoCanvas.video.readyState >= HaveMetadata
    /\ Len(invocations) < MaxInvocations
    /\ LET c == videoCanvas
           inv == NewInvocation("video", c.videoFile, c.selection)
       IN  IF c.videoFile = NoFile \/ c.selection.width = 0 \/ c.selection.height = 0
           THEN /\ watermarkRemover' = handleProcessingError(watermarkRemover,
                       "Please select a region to blur first.")
                /\ invocations' = Append(invocations, Returned(inv, "onError", c.isProcessing))
                /\ UNCHANGED videoCanvas
           ELSE IF ~LargeEnough(c.selection, layout)
           THEN /\ watermarkRemover' = handleProcessingError(watermarkRemover,
                       "The selected region is too small. Please select a larger area.")
                /\ invocations' = Append(invocations, Returned(inv, "onError", c.isProcessing))
                /\ UNCHANGED videoCanvas
           ELSE IF ~c.video.durationValid
           THEN /\ watermarkRemover' = handleProcessingError(watermarkRemover,
                       "Failed to process video. Video has invalid duration. Cannot process.")
                /\ invocations' = Append(invocations, Returned(inv, "onError", FALSE))
                /\ videoCanvas' = [c EXCEPT !.isProcessing = FALSE]
           ELSE /\ videoCanvas' = [c EXCEPT !.isProcessing = TRUE]
                /\ invocations' = Append(invocations,
                       [inv EXCEPT !.pc = "processVideo", !.started = TRUE])
                /\ UNCHANGED watermarkRemover
    /\ UNCHANGED <<imageCanvas, layout, coreVars>>

\* The finally of processVideoWithBlur without its setIsProcessing(false).
VideoCanvas_finally_absent(c, inv) == c

\* setIsProcessing(false) of a call's finally: on the component that made
\* the call, if it is still mounted.
VideoCanvas_finally(c, inv) ==
    IF inv.orphaned THEN c ELSE [c EXCEPT !.isProcessing = FALSE]

\* processVideo's promise is fulfilled: onProcessingComplete and the finally.
ProcessVideoFulfilled ==
    /\ \E i \in 1 .. Len(invocations) :
         /\ invocations[i].component = "video"
         /\ invocations[i].pc = "processVideo"
         /\ watermarkRemover' = handleProcessingComplete(watermarkRemover,
                NewBlob(invocations[i].file))
         /\ videoCanvas' = VideoCanvas_finally(videoCanvas, invocations[i])
         /\ invocations' = [invocations EXCEPT ![i] =
                Returned(@, "onProcessingComplete", FlagLeft(@, videoCanvas'))]
    /\ UNCHANGED <<imageCanvas, layout, coreVars>>

\* processVideo's promise is rejected: the catch and the finally.
ProcessVideoRejected ==
    /\ \E i \in 1 .. Len(invocations) :
         /\ invocations[i].component = "video"
         /\ invocations[i].pc = "processVideo"
         /\ watermarkRemover' = handleProcessingError(watermarkRemover,
                "Failed to process video.")
         /\ videoCanvas' = VideoCanvas_finally(videoCanvas, invocations[i])
         /\ invocations' = [invocations EXCEPT ![i] =
                Returned(@, "onError", FlagLeft(@, videoCanvas'))]
    /\ UNCHANGED <<imageCanvas, layout, coreVars>>

\* ------------------------------ ImageCanvas ------------------------------
\* loadImage's promise is fulfilled: the rest of the load effect's try.
ImageLoadFulfilled ==
    /\ imageCanvas.mounted
    /\ \E file \in imageCanvas.loading :
         LET loaded == NewPicture(imageCanvas.originalImage)
         IN  imageCanvas' = ImageCanvas_render(imageCanvas, [imageCanvas EXCEPT !.loading = @ \ {file},
                 !.originalImage = loaded, !.displayedImageData = loaded,
                 !.selection = NoSelection, !.selectionMode = FALSE,
                 !.isProcessing = FALSE])
    /\ UNCHANGED <<watermarkRemover, videoCanvas, layout, invocations, coreVars>>

\* loadImage's promise is rejected: the load effect's catch and finally.
ImageLoadRejected ==
    /\ imageCanvas.mounted
    /\ \E file \in imageCanvas.loading :
         imageCanvas' = ImageCanvas_render(imageCanvas, [imageCanvas EXCEPT !.loading = @ \ {file},
             !.originalImage = Null, !.displayedImageData = Null,
             !.isProcessing = FALSE])
    /\ watermarkRemover' = handleProcessingError(watermarkRemover,
           "Failed to load image. Please try a different file.")
    /\ UNCHANGED <<videoCanvas, layout, invocations, coreVars>>

\* A loadImage of a component since unmounted settles: its onError still
\* reaches WatermarkRemover.
ImageOrphanLoadSettled ==
    /\ \E file \in imageCanvas.orphanLoads, fulfilled \in BOOLEAN :
         /\ imageCanvas' = [imageCanvas EXCEPT !.orphanLoads = @ \ {file}]
         /\ IF fulfilled
            THEN UNCHANGED watermarkRemover
            ELSE watermarkRemover' = handleProcessingError(watermarkRemover,
                     "Failed to load image. Please try a different file.")
    /\ UNCHANGED <<videoCanvas, layout, invocations, coreVars>>

\* The blur-preview effect, after a render in which one of its dependencies
\* has changed.
ImagePreviewEffect ==
    /\ imageCanvas.mounted
    /\ imageCanvas.previewPending
    /\ imageCanvas' = ImageCanvas_previewEffect(imageCanvas, layout)
    /\ UNCHANGED <<watermarkRemover, videoCanvas, layout, invocations, coreVars>>

ImageStartSelection ==
    /\ ImageCanvas_shown(imageCanvas)
    /\ imageCanvas.selectionMode
    /\ imageCanvas.originalImage # Null
    /\ \E e \in layout.mouse :
         LET p == ToCanvas(e, layout)
         IN  imageCanvas' = ImageCanvas_render(imageCanvas, [imageCanvas EXCEPT !.isDragging = TRUE, !.startPos = p,
                 !.selection = [x |-> p.x, y |-> p.y, width |-> 0, height |-> 0]])
    /\ UNCHANGED <<watermarkRemover, videoCanvas, layout, invocations, coreVars>>

ImageUpdateSelection ==
    /\ ImageCanvas_shown(imageCanvas)
    /\ imageCanvas.isDragging
    /\ imageCanvas.selectionMode
    /\ \E e \in layout.mouse :
         imageCanvas' = ImageCanvas_render(imageCanvas, [imageCanvas EXCEPT !.selection =
             DragSelection(imageCanvas.startPos, ToCanvas(e, layout))])
    /\ UNCHANGED <<watermarkRemover, videoCanvas, layout, invocations, coreVars>>

\* handleEndSelection, on mouseup and on mouseleave.
ImageEndSelection ==
    /\ ImageCanvas_shown(imageCanvas)
    /\ imageCanvas.selectionMode
    /\ imageCanvas' =
          ImageCanvas_render(imageCanvas, IF LargeEnough(imageCanvas.selection, layout)
          THEN [imageCanvas EXCEPT !.isDragging = FALSE, !.selectionMode = FALSE]
          ELSE [imageCanvas EXCEPT !.isDragging = FALSE, !.selection = NoSelection,
                   !.displayedImageData =
                       IF imageCanvas.originalImage # Null THEN imageCanvas.originalImage ELSE @])
    /\ UNCHANGED <<watermarkRemover, videoCanvas, layout, invocations, coreVars>>

ImageToggleSelectionMode ==
    /\ ImageCanvas_toggleEnabled(imageCanvas)
    /\ imageCanvas' =
          ImageCanvas_render(imageCanvas, IF ~imageCanvas.selectionMode
          THEN [imageCanvas EXCEPT !.selectionMode = TRUE, !.selection = NoSelection,
                   !.displayedImageData =
                       IF imageCanvas.originalImage # Null THEN imageCanvas.originalImage ELSE @]
          ELSE [imageCanvas EXCEPT !.selectionMode = FALSE])
    /\ UNCHANGED <<watermarkRemover, videoCanvas, layout, invocations, coreVars>>

\* resetImage, by the Reset button.
ImageReset ==
    /\ ImageCanvas_toggleEnabled(imageCanvas)
    /\ imageCanvas' = ImageCanvas_render(imageCanvas, [imageCanvas EXCEPT !.selection = NoSelection,
           !.displayedImageData = imageCanvas.originalImage,
           !.selectionMode = FALSE, !.isProcessing = FALSE])
    /\ UNCHANGED <<watermarkRemover, videoCanvas, layout, invocations, coreVars>>

\* processImage, by the Apply button, up to its await of toBlob.
ImageApply ==
    /\ ImageCanvas_applyEnabled(imageCanvas)
    /\ Len(invocations) < MaxInvocations
    /\ LET c == imageCanvas
           inv == [NewInvocation("image", c.imageFile, c.selection)
                       EXCEPT !.original = c.originalImage]
       IN  IF c.originalImage = Null \/ c.selection.width = 0 \/ c.selection.height = 0
           THEN /\ watermarkRemover' = handleProcessingError(watermarkRemover,
                       "Please select a region to blur first.")
                /\ invocations' = Append(invocations, Returned(inv, "onError", c.isProcessing))
                /\ UNCHANGED imageCanvas
           ELSE IF ~LargeEnough(c.selection, layout)
           THEN /\ watermarkRemover' = handleProcessingError(watermarkRemover,
                       "The selected region is too small. Please select a larger area.")
                /\ invocations' = Append(invocations, Returned(inv, "onError", c.isProcessing))
                /\ UNCHANGED imageCanvas
           ELSE IF ImageCanvas_removeWatermarkThrows(c, layout)
           THEN /\ watermarkRemover' = handleProcessingError(watermarkRemover,
                       "Failed to apply blur. Invalid watermark region")
                /\ invocations' = Append(invocations,
                       Returned([inv EXCEPT !.started = TRUE], "onError", FALSE))
                /\ imageCanvas' = ImageCanvas_render(imageCanvas, [c EXCEPT !.displayedImageData = c.originalImage,
                                            !.isProcessing = FALSE])
           ELSE /\ imageCanvas' = ImageCanvas_render(imageCanvas, [c EXCEPT !.isProcessing = TRUE,
                       !.displayedImageData =
                           NewBlurred(c.displayedImageData, c.selection)])
                /\ invocations' = Append(invocations,
                       [inv EXCEPT !.pc = "toBlob", !.started = TRUE])
                /\ UNCHANGED watermarkRemover
    /\ UNCHANGED <<videoCanvas, layout, coreVars>>

\* toBlob's promise is fulfilled: onProcessingComplete and the finally.
ToBlobFulfilled ==
    /\ \E i \in 1 .. Len(invocations) :
         /\ invocations[i].component = "image"
         /\ invocations[i].pc = "toBlob"
         /\ watermarkRemover' = handleProcessingComplete(watermarkRemover,
                NewBlob(invocations[i].file))
         /\ imageCanvas' = IF invocations[i].orphaned THEN imageCanvas
                           ELSE [imageCanvas EXCEPT !.isProcessing = FALSE]
         /\ invocations' = [invocations EXCEPT ![i] =
                Returned(@, "onProcessingComplete", FlagLeft(@, imageCanvas'))]
    /\ UNCHANGED <<videoCanvas, layout, coreVars>>

\* toBlob's promise is rejected: the catch and the finally.
ToBlobRejected ==
    /\ \E i \in 1 .. Len(invocations) :
         /\ invocations[i].component = "image"
         /\ invocations[i].pc = "toBlob"
         /\ watermarkRemover' = handleProcessingError(watermarkRemover,
                "Failed to apply blur. Failed to convert canvas to Blob.")
         /\ imageCanvas' = ImageCanvas_render(imageCanvas, IF invocations[i].orphaned THEN imageCanvas
                           ELSE [imageCanvas EXCEPT !.isProcessing = FALSE,
                                    !.displayedImageData = invocations[i].original])
         /\ invocations' = [invocations EXCEPT ![i] =
                Returned(@, "onError", FlagLeft(@, imageCanvas'))]
    /\ UNCHANGED <<videoCanvas, layout, coreVars>>

\* ------------------------------ the program ------------------------------
NextApp ==
    \/ FileSelected
    \/ HandleDownload
    \/ PreviewLoadedMetadata
    \/ PreviewSeeked
    \/ PreviewError
    \/ VideoPreviewEffect
    \/ VideoStartSelection
    \/ VideoUpdateSelection
    \/ VideoEndSelection
    \/ VideoToggleSelectionMode
    \/ VideoApply
    \/ ProcessVideoFulfilled
    \/ ProcessVideoRejected
    \/ ImageLoadFulfilled
    \/ ImageLoadRejected
    \/ ImageOrphanLoadSettled
    \/ ImagePreviewEffect
    \/ ImageStartSelection
    \/ ImageUpdateSelection
    \/ ImageEndSelection
    \/ ImageToggleSelectionMode
    \/ ImageReset
    \/ ImageApply
    \/ ToBlobFulfilled
    \/ ToBlobRejected

\* The application as index.js renders it, shown at its own size.
InitApp ==
    /\ watermarkRemover = NewWatermarkRemover
    /\ videoCanvas = NoVideoCanvas
    /\ imageCanvas = NoImageCanvas
    /\ layout \in {[lay EXCEPT !.mouse = CornerPoints(lay.rect.width)] :
                      lay \in {l \in Layouts : l.rect.width = l.width}}
    /\ invocations = <<>>

InitSpecApp == InitApp /\ IdleBlur /\ IdleRadius /\ IdleVideo

SpecApp == InitSpecApp /\ [][NextApp]_vars

\* One canvas with its picture loaded, as PreviewSeeked or ImageLoadFulfilled
\* leaves it, shown in a rectangle of any of the sizes, and what the mouse
\* and the buttons of that canvas can do to it before a call returns.
LoadedVideoCanvas(file) ==
    LET frame == NewPicture(Null)
    IN  [NewVideoCanvas(file) EXCEPT
            !.video = [readyState |-> HaveMetadata, seeking |-> FALSE,
                       error |-> FALSE, durationValid |-> TRUE],
            !.previewFrame = frame, !.displayedFrameData = frame,
            !.previewPending = TRUE]

LoadedImageCanvas(file) ==
    LET loaded == NewPicture(Null)
    IN  [NoImageCanvas EXCEPT !.mounted = TRUE, !.imageFile = file,
            !.originalImage = loaded, !.displayedImageData = loaded,
            !.previewPending = TRUE]

InitCanvas ==
    /\ layout \in Layouts
    /\ invocations = <<>>
    /\ \E file \in Files :
         /\ watermarkRemover = handleFileSelected(NewWatermarkRemover, file)
         /\ videoCanvas = IF file.type = "video" THEN LoadedVideoCanvas(file)
                          ELSE NoVideoCanvas
         /\ imageCanvas = IF file.type = "image" THEN LoadedImageCanvas(file)
                          ELSE NoImageCanvas

NextCanvas ==
    \/ VideoPreviewEffect
    \/ VideoStartSelection
    \/ VideoUpdateSelection
    \/ VideoEndSelection
    \/ VideoToggleSelectionMode
    \/ VideoApply
    \/ ImagePreviewEffect
    \/ ImageStartSelection
    \/ ImageUpdateSelection
    \/ ImageEndSelection
    \/ ImageToggleSelectionMode
    \/ ImageReset
    \/ ImageApply

InitSpecCanvas == InitCanvas /\ IdleBlur /\ IdleRadius /\ IdleVideo

SpecCanvas == InitSpecCanvas /\ [][NextCanvas]_vars

\* React runs an effect whose dependencies have changed.
SpecCanvasFair ==
    /\ InitSpecCanvas
    /\ [][NextCanvas]_vars
    /\ WF_vars(VideoPreviewEffect)
    /\ WF_vars(ImagePreviewEffect)

(***************************************************************************)
(* Specifications.                                                         *)
(***************************************************************************)
NextBlur ==
    \/ RemoveWatermark
    \/ RemoveWatermarkAgain
    \/ BlurWatermark
    \/ ImageApplyBlurEffect
    \/ VideoApplyBlurEffect

InitSpecBlur == InitBlur /\ IdleRadius /\ IdleVideo /\ IdleUi

SpecBlur == InitSpecBlur /\ [][NextBlur]_vars

NextRadius ==
    \/ ImageCalculateBlurRadius
    \/ VideoCalculateBlurRadius

InitSpecRadius == InitRadius /\ IdleBlur /\ IdleVideo /\ IdleUi

SpecRadius == InitSpecRadius /\ [][NextRadius]_vars

NextVideo ==
    \/ ProcessVideo
    \/ LoadedMetadata
    \/ LoadedData
    \/ ExtractFrame
    \/ VideoSeeked
    \/ VideoError
    \/ AfterLoop
    \/ AssembleVideoOfNoFrames
    \/ DrawNextFrame
    \/ MediaRecorderDataAvailable
    \/ MediaRecorderStop
    \/ MediaRecorderError

InitSpecVideo == InitVideo /\ IdleRadius /\ IdleUi

SpecVideo == InitSpecVideo /\ [][NextVideo]_vars

\* The event loop runs what the code itself has scheduled: the continuation
\* of processVideo after its loop and the timer of drawNextFrame.  The events
\* of the video element and of the recorder may never come.  (While
\* processVideo waits for metadata no call and no extraction is enabled.)
SpecVideoFair ==
    /\ InitSpecVideo
    /\ [][NextVideo]_vars
    /\ WF_vars(AfterLoop)
    /\ WF_vars(DrawNextFrame)

\* Runs in which the event loop runs what the code has scheduled, every
\* seek requested ends in a seeked event and the recorder delivers the
\* events of a stop.  The last two conjuncts are weak fairness of
\* ExtractFrame and of VideoSeeked, written with the guards of the two
\* actions in the place of ENABLED.
SpecVideoLive ==
    /\ InitSpecVideo
    /\ [][NextVideo]_vars
    /\ WF_vars(AfterLoop)
    /\ WF_vars(DrawNextFrame)
    /\ WF_vars(MediaRecorderDataAvailable)
    /\ WF_vars(MediaRecorderStop)
    /\ \/ []<>~(pc = "loop" /\ LessThan(sampleIndex, totalFramesToProcess))
       \/ []<><<ExtractFrame>>_vars
    /\ \/ []<>~(pc # "loop" /\ videoElement.seeking)
       \/ []<><<VideoSeeked>>_vars

NextProgress == ReportProgress

InitSpecProgress == InitProgress /\ IdleBlur /\ IdleRadius /\ IdleUi

SpecProgress == InitSpecProgress /\ [][NextProgress]_vars

(***************************************************************************)
(* Properties.                                                             *)
(***************************************************************************)
\* The bytes of the buffer handed to the blur, as they were before the call.
Source == PixelPattern(pattern, imageData.width, imageData.height)

\* The bytes of the buffer the call gave back.
Output == heap[outcome.value.data]

\* The Rectangle invariant of a region against the image's dimensions.
RectangleInvariant ==
    /\ watermarkRegion.x >= 0
    /\ watermarkRegion.y >= 0
    /\ watermarkRegion.width > 0
    /\ watermarkRegion.height > 0
    /\ watermarkRegion.x + watermarkRegion.width <= imageData.width
    /\ watermarkRegion.y + watermarkRegion.height <= imageData.height

InsideRegion(x, y) ==
    /\ watermarkRegion.x <= x
    /\ x < watermarkRegion.x + watermarkRegion.width
    /\ watermarkRegion.y <= y
    /\ y < watermarkRegion.y + watermarkRegion.height

Pixels == (0 .. (imageData.width - 1)) \X (0 .. (imageData.height - 1))

ByteIndex(x, y, c) == (y * imageData.width + x) * 4 + c

WholeBlurOps == {"removeWatermark", "blurWatermark"}

BlurOps ==
    WholeBlurOps \cup {"ImageProcessor.applyBlurEffect", "VideoProcessor.applyBlurEffect"}

\* C1: on a region satisfying the Rectangle invariant, removeWatermark and
\* blurWatermark return a buffer of the input's width and height in which
\* all four bytes of every pixel outside the region equal the source's.
C1_OutsideRegionUntouched ==
    (outcome.op \in WholeBlurOps /\ RectangleInvariant) =>
        /\ ~outcome.thrown
        /\ outcome.value.width = imageData.width
        /\ outcome.value.height = imageData.height
        /\ DOMAIN Output = DOMAIN Source
        /\ \A px \in Pixels :
              ~InsideRegion(px[1], px[2]) =>
                  \A c \in 0 .. 3 :
                      Output[ByteIndex(px[1], px[2], c)] = Source[ByteIndex(px[1], px[2], c)]

\* C1 happens: a valid region blurred, with a pixel outside it whose
\* neighbour inside it changed.
C1_Witness ==
    /\ outcome.op = "removeWatermark"
    /\ RectangleInvariant
    /\ \E px \in Pixels : ~InsideRegion(px[1], px[2])
    /\ \E px \in Pixels, c \in 0 .. 2 :
          /\ InsideRegion(px[1], px[2])
          /\ Output[ByteIndex(px[1], px[2], c)] # Source[ByteIndex(px[1], px[2], c)]

\* C2: for every pixel inside a valid region the alpha byte of the blur's
\* output equals the source's alpha byte at that coordinate, at every radius
\* and however close to the image's edge.
C2_AlphaPreserved ==
    (outcome.op \in BlurOps /\ RectangleInvariant) =>
        \A px \in Pixels :
            InsideRegion(px[1], px[2]) =>
                Output[ByteIndex(px[1], px[2], 3)] = Source[ByteIndex(px[1], px[2], 3)]

\* C2 happens: a blurred pixel whose alpha differs from a neighbour's within
\* the kernel, at a radius above the least one.
C2_Witness ==
    /\ outcome.op = "VideoProcessor.applyBlurEffect"
    /\ outcome.radius > 2
    /\ RectangleInvariant
    /\ \E px \in Pixels, qx \in Pixels :
          /\ InsideRegion(px[1], px[2])
          /\ Source[ByteIndex(px[1], px[2], 3)] = 0
          /\ Source[ByteIndex(qx[1], qx[2], 3)] = 255
          /\ Output[ByteIndex(px[1], px[2], 0)] > 0

\* The sum of channel c of buf over the columns x0 .. x1 of row y.
RECURSIVE RowSum(_, _, _, _, _)
RowSum(buf, x0, x1, y, c) ==
    IF x0 > x1 THEN 0 ELSE buf[ByteIndex(x0, y, c)] + RowSum(buf, x0 + 1, x1, y, c)

\* The sum of channel c of buf over the window x0 .. x1 by y0 .. y1.
RECURSIVE WindowSum(_, _, _, _, _, _)
WindowSum(buf, x0, x1, y0, y1, c) ==
    IF y0 > y1 THEN 0
    ELSE RowSum(buf, x0, x1, y0, c) + WindowSum(buf, x0, x1, y0 + 1, y1, c)

\* v is an integer nearest sum / n.
NearestTo(v, sum, n) == 2 * v * n - 2 * sum \in (0 - n) .. n

\* C3: for every pixel inside a valid region each of red, green and blue of
\* the output is the sum of that channel of the source over the kernel's
\* samples within the image, divided by the number of those samples (not by
\* the kernel area), as stored in a byte: in 0 .. 255 and nearest the quotient.
C3_MeanOverInBoundsSamples ==
    (outcome.op \in BlurOps /\ RectangleInvariant) =>
        \A px \in Pixels :
            InsideRegion(px[1], px[2]) =>
                LET x0 == Max(0, px[1] - outcome.radius)
                    x1 == Min(imageData.width - 1, px[1] + outcome.radius)
                    y0 == Max(0, px[2] - outcome.radius)
                    y1 == Min(imageData.height - 1, px[2] + outcome.radius)
                    n == (x1 - x0 + 1) * (y1 - y0 + 1)
                IN  \A c \in 0 .. 2 :
                        /\ Output[ByteIndex(px[1], px[2], c)] \in 0 .. 255
                        /\ NearestTo(Output[ByteIndex(px[1], px[2], c)],
                                     WindowSum(Source, x0, x1, y0, y1, c), n)

\* C3 happens: a pixel blurred from a kernel that reaches a sample outside the
\* region and whose mean is no integer.
C3_Witness ==
    /\ outcome.op = "removeWatermark"
    /\ RectangleInvariant
    /\ \E px \in Pixels :
          /\ InsideRegion(px[1], px[2])
          /\ px[1] + 1 < imageData.width
          /\ ~InsideRegion(px[1] + 1, px[2])
          /\ LET x0 == Max(0, px[1] - outcome.radius)
                 x1 == Min(imageData.width - 1, px[1] + outcome.radius)
                 n == (x1 - x0 + 1) * imageData.height
             IN  /\ WindowSum(Source, x0, x1, 0, imageData.height - 1, 0) % n # 0
                 /\ Output[ByteIndex(px[1], px[2], 0)] # Source[ByteIndex(px[1], px[2], 0)]

\* C4: calculateBlurRadius(w, h) is clamp(floor(min(max(1, w), max(1, h)) *
\* 0.05), 2, 10): an integer in 2 .. 10 with radius(40, 40) = 2,
\* radius(400, 400) = 10 and radius(1, 1) = 2.  The floor of a twentieth of m
\* is the r with 20 r <= m < 20 (r + 1).
C4_RadiusFormula ==
    radiusResult.op # "none" =>
        LET m == Min(Max(1, regionWidth), Max(1, regionHeight))
            r == radiusResult.value
        IN  /\ r \in 2 .. 10
            /\ m < 60 => r = 2
            /\ m >= 200 => r = 10
            /\ (60 <= m /\ m < 200) => (20 * r <= m /\ m < 20 * (r + 1))
            /\ (regionWidth = 40 /\ regionHeight = 40) => r = 2
            /\ (regionWidth = 400 /\ regionHeight = 400) => r = 10
            /\ (regionWidth = 1 /\ regionHeight = 1) => r = 2

\* C4 happens: the radius of a 400 by 400 region, capped.
C4_Witness ==
    /\ radiusResult.op = "video"
    /\ regionWidth = 400
    /\ regionHeight = 400
    /\ radiusResult.value = 10

\* C5: removeWatermark on a region violating the Rectangle invariant fails
\* with an error before any pixel is read or written: no output buffer is
\* produced and the input buffer is unchanged.
C5_ImagePathRejects ==
    (outcome.op = "removeWatermark" /\ ~RectangleInvariant) =>
        /\ outcome.thrown
        /\ outcome.value = NoImage
        /\ heap = <<Source>>

\* C5 happens: removeWatermark called with a region past the right edge.
C5_Witness ==
    /\ outcome.op = "removeWatermark"
    /\ watermarkRegion.x >= 0
    /\ watermarkRegion.y >= 0
    /\ watermarkRegion.width > 0
    /\ watermarkRegion.height > 0
    /\ watermarkRegion.y + watermarkRegion.height <= imageData.height
    /\ watermarkRegion.x + watermarkRegion.width > imageData.width
    /\ outcome.thrown

\* C6: blurWatermark on a region violating the Rectangle invariant raises
\* no error and returns the input frame, every byte unchanged.
C6_VideoPathReturnsInput ==
    (outcome.op = "blurWatermark" /\ ~RectangleInvariant) =>
        /\ ~outcome.thrown
        /\ outcome.value = imageData
        /\ heap = <<Source>>

\* C6 happens: blurWatermark called with a region past the bottom edge.
C6_Witness ==
    /\ outcome.op = "blurWatermark"
    /\ watermarkRegion.x >= 0
    /\ watermarkRegion.y >= 0
    /\ watermarkRegion.width > 0
    /\ watermarkRegion.height > 0
    /\ watermarkRegion.x + watermarkRegion.width <= imageData.width
    /\ watermarkRegion.y + watermarkRegion.height > imageData.height
    /\ outcome.value = imageData

\* The extractions fulfilled so far, in sample order.
IsFulfilled(extraction) == extraction.state = "fulfilled"
Extracted == SelectSeq(extractions, IsFulfilled)

\* What blurWatermark makes of an extracted frame on the heap as it was when
\* the frame had just been extracted: the frame returned and its bytes.
BlurredFrame(frameData) ==
    LET r == VideoProcessor_blurWatermark(SubSeq(heap, 1, frameData.data), frameData,
                 watermarkRegion)
    IN  [frame |-> r.value, bytes |-> r.heap[r.value.data]]

\* C7: a run in which some sample was extracted is not failed before it
\* reaches the encoder, and the frames handed to the encoder are exactly the
\* blurred frames of the extracted samples, in sample order, the failed
\* samples skipped.
C7_FailedSamplesSkipped ==
    /\ (processVideoPromise.state = "rejected" /\ ~assembly.invoked) => Extracted = <<>>
    /\ assembly.invoked =>
          /\ Len(extractions) = totalFramesToProcess.value
          /\ Len(assembly.frames) = Len(Extracted)
          /\ \A k \in 1 .. Len(Extracted) :
                LET blurred == BlurredFrame(Extracted[k].value)
                IN  /\ k <= Len(assembly.frames)
                    /\ assembly.frames[k] = blurred.frame
                    /\ heap[assembly.frames[k].data] = blurred.bytes

\* C7 happens: the encoder was handed the frames of a run of three samples
\* or more in which a sample between two extracted ones failed.
C7_Witness ==
    /\ assembly.invoked
    /\ Len(assembly.frames) = Len(extractions) - 1
    /\ \E k \in 2 .. (Len(extractions) - 1) :
          /\ extractions[k].state = "rejected"
          /\ extractions[k - 1].state = "fulfilled"
          /\ extractions[k + 1].state = "fulfilled"

\* processVideo has been called.
ProcessVideoCalled == pc \notin {"notCalled", "assembleVideo"}

\* C8: once processVideo is called on a source whose
\* floor(duration * frameRate) is <= 0, NaN or infinite, the run has failed
\* with the invalid-duration error, extractFrame was never called (no seek
\* was requested, no handler installed) and the encoder was never invoked.
C8_InvalidCountFailsAtOnce ==
    (ProcessVideoCalled
        /\ (totalFramesToProcess.kind # "number" \/ totalFramesToProcess.value <= 0)) =>
        /\ pc = "failed"
        /\ processVideoPromise =
              Rejected("Invalid video duration or frame rate, cannot process.")
        /\ extractions = <<>>
        /\ ~videoElement.seeking
        /\ videoElement.currentTime = [num |-> 0, den |-> 1]
        /\ videoElement.onseeked = NoHandler
        /\ ~assembly.invoked

\* C8 happens: processVideo was called on a source of infinite duration.
C8_Witness ==
    /\ pc = "failed"
    /\ videoElement.duration.kind = "Infinity"
    /\ totalFramesToProcess.kind = "Infinity"

\* The loop is over and every sample failed extraction.
EverySampleFailed ==
    /\ pc \notin {"notCalled", "awaitMetadata", "loop", "awaitExtract"}
    /\ totalFramesToProcess.kind = "number"
    /\ Len(extractions) > 0
    /\ Len(extractions) = totalFramesToProcess.value
    /\ \A k \in 1 .. Len(extractions) : extractions[k].state = "rejected"

\* C9: when every sample of a run has failed extraction, the run has failed
\* with the no-frames-processed error and assembleVideo was never invoked.
C9_NoFramesProcessed ==
    EverySampleFailed =>
        /\ pc = "failed"
        /\ processVideoPromise =
              Rejected("No frames were processed. Video processing failed.")
        /\ processedFrames = <<>>
        /\ ~assembly.invoked
        /\ assembly.recorder = "none"

\* C9 happens: a run of two samples or more, every one of them failed.
C9_Witness ==
    /\ EverySampleFailed
    /\ Len(extractions) >= 2

\* floor((i + 1) / count * 100), exactly.
ExactPercent(i, count) == ((i + 1) * 100) \div count

\* C10: in a run whose samples are all extracted, the k-th value handed to
\* the progress callback is an integer in 0 .. 100, equals
\* floor(k / count * 100), and is not below the value before it.
C10_ProgressReports ==
    \A k \in 1 .. Len(reported) :
        /\ reported[k] \in 0 .. 100
        /\ reported[k] = ExactPercent(k - 1, totalFramesToProcess.value)
        /\ k > 1 => reported[k - 1] <= reported[k]

\* a < b for two times num / den.
TimeLess(a, b) == a.num * b.den < b.num * a.den

\* C11: the k-th frame requested of the source is the one at
\* (k - 1) / frameRate, later than the one before it; the k-th frame
\* appended was made of the k-th extracted sample, after its extraction and
\* before the next one (buffers are numbered as they are allocated); and the
\* encoder is handed that sequence and draws it from its first frame on, to
\* its last by the time it stops the recorder.
C11_FramesInTimestampOrder ==
    /\ \A k \in 1 .. Len(extractions) :
          /\ extractions[k].time = [num |-> k - 1, den |-> processingFrameRate]
          /\ k > 1 => TimeLess(extractions[k - 1].time, extractions[k].time)
    /\ Len(processedFrames) = Len(Extracted)
    /\ \A k \in 1 .. Len(processedFrames) :
          /\ k <= Len(Extracted)
          /\ processedFrames[k].width = Extracted[k].value.width
          /\ processedFrames[k].height = Extracted[k].value.height
          /\ Extracted[k].value.data <= processedFrames[k].data
          /\ k < Len(Extracted) =>
                processedFrames[k].data < Extracted[k + 1].value.data
    /\ assembly.recorder # "none" =>
          /\ assembly.frames = processedFrames
          /\ assembly.frameIndex <= Len(assembly.frames)
          /\ assembly.drawn = SubSeq(assembly.frames, 1, assembly.frameIndex)
          /\ ~assembly.timer => assembly.drawn = assembly.frames

\* C11 happens: the encoder has drawn the three frames of a run of three
\* samples and stopped the recorder.
C11_Witness ==
    /\ assembly.recorder = "inactive"
    /\ ~assembly.timer
    /\ Len(assembly.drawn) = 3
    /\ Len(extractions) = 3
    /\ assembly.drawn[1] # assembly.drawn[2]
    /\ assembly.drawn[2] # assembly.drawn[3]

\* C12: after removeWatermark or blurWatermark, on a valid region or not,
\* every byte of the input buffer is what it was before the call, and on a
\* valid region the result lies in a buffer allocated by the call, of the
\* input's size.
C12_SourceNeverMutated ==
    outcome.op \in WholeBlurOps =>
        /\ heap[imageData.data] = Source
        /\ RectangleInvariant =>
              /\ outcome.value.data # imageData.data
              /\ Len(heap) = 2
              /\ outcome.value.data = 2
              /\ DOMAIN heap[2] = DOMAIN Source

\* C12 happens: blurWatermark changed a byte of its result and the input
\* buffer still holds the picture it was given.
C12_Witness ==
    /\ outcome.op = "blurWatermark"
    /\ RectangleInvariant
    /\ heap[outcome.value.data] # Source
    /\ heap[imageData.data] = Source

\* The region of a processVideo run violates the Rectangle invariant
\* against the frames of the video.
InvalidVideoRegion ==
    ~(/\ watermarkRegion.x >= 0
      /\ watermarkRegion.y >= 0
      /\ watermarkRegion.width > 0
      /\ watermarkRegion.height > 0
      /\ watermarkRegion.x + watermarkRegion.width <= FrameWidth
      /\ watermarkRegion.y + watermarkRegion.height <= FrameHeight)

\* C13: a processVideo run whose region violates the Rectangle invariant
\* hands no frames to the encoder and never completes successfully.
C13_InvalidRegionFailsRun ==
    (ProcessVideoCalled /\ InvalidVideoRegion) =>
        /\ ~assembly.invoked
        /\ processVideoPromise.state # "fulfilled"

\* C14: blurring a buffer whose pixels all have one colour, on any valid
\* region and at any radius, gives a buffer equal to the source byte for
\* byte.
C14_UniformIsFixedPoint ==
    (outcome.op \in BlurOps /\ pattern = 0 /\ RectangleInvariant) =>
        /\ ~outcome.thrown
        /\ Output = Source

\* C14 happens: a one-colour picture three pixels wide or more was blurred
\* on a region narrower than the picture, the kernel reaching past the
\* picture's edge.
C14_Witness ==
    /\ outcome.op \in WholeBlurOps
    /\ pattern = 0
    /\ RectangleInvariant
    /\ imageData.width >= 3
    /\ watermarkRegion.width < imageData.width
    /\ Output = Source
    /\ Output[0] = 200

\* The results of the first and of the second removeWatermark.
BlurredOnce == heap[2]
BlurredTwice == heap[outcome.value.data]

\* C15: on a checkerboard two pixels wide or more, with the region its first
\* pixel alone, blurring the blurred result again with the same region
\* gives a buffer different from the result of the single blur.
C15_BlurNotIdempotent ==
    (/\ outcome.op = "removeWatermark twice"
     /\ pattern = 1
     /\ imageData.width >= 2
     /\ watermarkRegion = [x |-> 0, y |-> 0, width |-> 1, height |-> 1]) =>
        /\ ~outcome.thrown
        /\ BlurredTwice # BlurredOnce

\* C15 happens: a source buffer and a valid region for which the second
\* blur changed a byte of the first blur's result.
C15_Witness ==
    /\ outcome.op = "removeWatermark twice"
    /\ RectangleInvariant
    /\ ~outcome.thrown
    /\ heap[1] = Source
    /\ \E idx \in DOMAIN BlurredOnce : BlurredTwice[idx] # BlurredOnce[idx]

\* The recorder has stopped and its stop event has been handled.
RecorderStopped == assembly.recorder = "inactive" /\ assembly.events = <<>>

\* C16: assembleVideo called with no frames is rejected.  Called with
\* frames, its promise is fulfilled only once the recorder has stopped
\* without an error with a chunk collected, and then with those chunks; it
\* is rejected once the recorder has stopped with no chunk collected or has
\* reported an error.  The promise of the processVideo run that called it is
\* settled the same way.
C16_AssembleVideoSettlement ==
    /\ (assembly.invoked /\ assembly.frames = <<>>) =>
          assembly.promise = Rejected("No frames to assemble.")
    /\ assembly.promise.state = "fulfilled" =>
          /\ RecorderStopped
          /\ ~assembly.errored
          /\ Len(assembly.chunks) >= 1
          /\ assembly.promise.blob = assembly.chunks
    /\ (RecorderStopped /\ ~assembly.errored) =>
          assembly.promise.state =
              (IF Len(assembly.chunks) >= 1 THEN "fulfilled" ELSE "rejected")
    /\ assembly.errored => assembly.promise.state = "rejected"
    /\ (assembly.invoked /\ ProcessVideoCalled) => processVideoPromise = assembly.promise

\* C16 happens: a recorder stopped with a chunk collected and the run was
\* fulfilled with it.
C16_Witness ==
    /\ RecorderStopped
    /\ Len(assembly.chunks) >= 1
    /\ processVideoPromise.state = "fulfilled"
    /\ processVideoPromise.blob = assembly.chunks

\* C17: extractFrame is called, and with it a seek requested, only while no
\* seek requested earlier is still under way.
C17_OneExtractionInFlight ==
    [][Len(extractions') > Len(extractions) => ~videoElement.seeking]_vars

\* a = b for two times num / den.
TimeEqual(a, b) == a.num * b.den = b.num * a.den

\* C18: whenever a promise of extractFrame becomes fulfilled, the seek to
\* its time has completed: the element is no longer seeking and shows the
\* picture of that time.
C18_FrameCapturedAfterItsSeek ==
    [][\A k \in 1 .. Len(extractions') :
          (/\ extractions'[k].state = "fulfilled"
           /\ (k > Len(extractions) \/ extractions[k].state # "fulfilled")) =>
              /\ ~videoElement'.seeking
              /\ TimeEqual(videoElement'.shown, extractions'[k].time)]_vars

\* C19: while the recorder is recording, the canvas changes only in a step
\* in which drawNextFrame puts a frame.
C19_CanvasOwnedByEncoder ==
    [][(assembly.recorder = "recording" /\ canvas' # canvas) =>
          Len(assembly'.drawn) > Len(assembly.drawn)]_vars

\* C20: a run waiting for the metadata of its source does not wait forever.
C20_MetadataWaitEnds == (pc = "awaitMetadata") ~> (pc # "awaitMetadata")
\* C21: a run of processVideo, once called, ends: its promise is fulfilled
\* or rejected.
C21_RunTerminates == ProcessVideoCalled ~> (processVideoPromise.state # "pending")

\* C22: the frames drawn are always the first frames of the list, in its
\* order; the first is drawn with the recorder started; a step draws one
\* frame at most, so a timer delay lies between two draws; the step that
\* calls stop (the one ending the timer chain) draws nothing and comes
\* when every frame was drawn by an earlier step; after it nothing is drawn
\* and no timer is set, so stop is not called again.
C22_DrawsThenStop ==
    [][/\ Len(assembly'.drawn) <= Len(assembly'.frames)
       /\ assembly'.drawn = SubSeq(assembly'.frames, 1, Len(assembly'.drawn))
       /\ Len(assembly'.drawn) <= Len(assembly.drawn) + 1
       /\ assembly'.drawn # <<>> => assembly'.recorder # "none"
       /\ (assembly.timer /\ ~assembly'.timer) =>
             /\ assembly.drawn = assembly.frames
             /\ assembly'.drawn = assembly.drawn
       /\ (assembly.recorder # "none" /\ ~assembly.timer) =>
             /\ ~assembly'.timer
             /\ assembly'.drawn = assembly.drawn]_vars

\* C22 happens: the three frames of a run were drawn, stop was called and
\* the recorder, which never failed, has stopped.
C22_Witness ==
    /\ assembly.recorder = "inactive"
    /\ ~assembly.errored
    /\ ~assembly.timer
    /\ Len(assembly.frames) = 3
    /\ assembly.drawn = assembly.frames

\* The count applyBlurEffect reached for pixel (x, y) in the call made.
SamplesCounted(x, y) ==
    IF outcome.op \in {"removeWatermark", "ImageProcessor.applyBlurEffect"}
    THEN ImageProcessor_kyLoop(Source, x, y, outcome.radius, imageData.width,
             imageData.height, 0 - outcome.radius).count
    ELSE VideoProcessor_kyLoop(Source, x, y, outcome.radius, imageData.width,
             imageData.height, 0 - outcome.radius).count

\* C23: in a blur of a region satisfying the Rectangle invariant the count
\* of every pixel of the region is 1 or more, so that the branch copying
\* the source pixel (count = 0) is not taken.
C23_CountNeverZero ==
    (outcome.op \in BlurOps /\ RectangleInvariant) =>
        \A x \in 0 .. (imageData.width - 1), y \in 0 .. (imageData.height - 1) :
            InsideRegion(x, y) => SamplesCounted(x, y) >= 1

\* C23 happens: a one-pixel image was blurred whole, the pixel itself being
\* the only sample of its kernel in bounds.
C23_Witness ==
    /\ outcome.op \in BlurOps
    /\ RectangleInvariant
    /\ imageData.width = 1
    /\ imageData.height = 1
    /\ SamplesCounted(0, 0) = 1

\* What the class that was not called makes of the same input.
OtherClass ==
    IF outcome.op = "removeWatermark"
    THEN VideoProcessor_blurWatermark(<<Source>>, imageData, watermarkRegion)
    ELSE ImageProcessor_removeWatermark(<<Source>>, imageData, watermarkRegion)

OtherRadius ==
    IF outcome.op = "removeWatermark"
    THEN VideoProcessor_calculateBlurRadius(watermarkRegion.width, watermarkRegion.height)
    ELSE ImageProcessor_calculateBlurRadius(watermarkRegion.width, watermarkRegion.height)

\* C24: on a region satisfying the Rectangle invariant the buffer returned
\* by removeWatermark or blurWatermark has the size and the bytes of the
\* one the other class returns for the same input, and the radius used is
\* the other class's radius; on any other region removeWatermark throws and
\* blurWatermark returns its input.
C24_CopiesEquivalent ==
    outcome.op \in WholeBlurOps =>
        IF RectangleInvariant
        THEN /\ ~outcome.thrown
             /\ ~OtherClass.thrown
             /\ outcome.value.width = OtherClass.value.width
             /\ outcome.value.height = OtherClass.value.height
             /\ Output = OtherClass.heap[OtherClass.value.data]
             /\ outcome.radius = OtherRadius
        ELSE /\ outcome.op = "removeWatermark" => outcome.thrown
             /\ outcome.op = "blurWatermark" =>
                   ~outcome.thrown /\ outcome.value = imageData

\* C24 happens: blurWatermark changed a picture over a region inside it.
C24_Witness ==
    /\ outcome.op = "blurWatermark"
    /\ RectangleInvariant
    /\ imageData.height = MaxHeight
    /\ Output # Source

\* C24, the radius alone: whichever calculateBlurRadius was called, both
\* give the radius it returned.
C24_SameRadius ==
    radiusResult.op # "none" =>
        /\ radiusResult.value = ImageProcessor_calculateBlurRadius(regionWidth, regionHeight)
        /\ radiusResult.value = VideoProcessor_calculateBlurRadius(regionWidth, regionHeight)

\* The regions that the components have handed over: to the blur of the
\* preview, and to removeWatermark or processVideo by a call of Apply.
RegionsPassed ==
    {shown.region : shown \in
            {o \in {videoCanvas.displayedFrameData, imageCanvas.displayedImageData} :
                o.kind = "blurred"}}
        \cup {invocations[i].region :
                i \in {n \in 1 .. Len(invocations) : invocations[n].started}}

\* C25: every region that ImageCanvas or VideoCanvas hands to the blur or to
\* processVideo has whole numbers of pixels as x, y, width and height,
\* whatever the drag and the ratio of the canvas's size to its shown size.
C25_RegionsAreIntegers ==
    \A region \in RegionsPassed : IsIntegerRegion(region, layout)

\* A selection larger than 10 x 10 is committed in the canvas shown.
Committed ==
    \/ /\ videoCanvas.mounted
       /\ ~videoCanvas.selectionMode
       /\ LargeEnough(videoCanvas.selection, layout)
    \/ /\ imageCanvas.mounted
       /\ ~imageCanvas.selectionMode
       /\ LargeEnough(imageCanvas.selection, layout)

\* The blur-preview effect of the canvas shown is to run (again).
PreviewPending == videoCanvas.previewPending \/ imageCanvas.previewPending

\* C26: once a selection larger than 10 x 10 is committed, the blur-preview
\* effect comes to rest: a state is reached in which it is not to run again.
C26_PreviewSettles == Committed ~> ~PreviewPending

\* C27: a blob that WatermarkRemover holds as processedFileBlob was made
\* from the file that is selected: no call started on an earlier file has
\* its result stored after the file was changed or removed.
C27_BlobOfCurrentFile ==
    watermarkRemover.processedFileBlob # NoBlob
        => watermarkRemover.processedFileBlob.of = watermarkRemover.currentFile

\* The calls of processVideoWithBlur whose processVideo has not settled, on
\* the VideoProcessor of the VideoCanvas that is mounted.
RunsInFlight ==
    {i \in 1 .. Len(invocations) :
        /\ invocations[i].component = "video"
        /\ invocations[i].pc = "processVideo"
        /\ ~invocations[i].orphaned}

\* C28: at most one processVideo runs on the VideoProcessor of a VideoCanvas,
\* and Apply is not enabled while one does, a change of the video file
\* during the run included.
C28_OneRunInFlight ==
    /\ Cardinality(RunsInFlight) <= 1
    /\ VideoCanvas_applyEnabled(videoCanvas) => RunsInFlight = {}

\* C30: WatermarkRemover never holds a processedFileBlob and an error
\* together, and every step that changes the file leaves it with neither.
C30_BlobOrError ==
    [][/\ \/ watermarkRemover'.processedFileBlob = NoBlob
          \/ watermarkRemover'.error = NoError
       /\ watermarkRemover'.currentFile # watermarkRemover.currentFile
            => /\ watermarkRemover'.processedFileBlob = NoBlob
               /\ watermarkRemover'.error = NoError]_vars

\* C29: a call of processVideoWithBlur or processImage that has returned
\* has called one of onProcessingComplete and onError, once, and has left
\* isProcessing false; a call that has not returned has called neither; and
\* a call with no selection, or one of width or height 10 or less, has
\* returned with onError and without starting the blur or the pipeline.
C29_OneCallback ==
    \A i \in 1 .. Len(invocations) :
        LET inv == invocations[i]
        IN  /\ Terminated(inv)
                => /\ inv.calls \in {<<"onProcessingComplete">>, <<"onError">>}
                   /\ ~inv.isProcessing
            /\ ~Terminated(inv) => inv.calls = <<>>
            /\ \/ inv.region.width <= 10 * layout.rect.width
               \/ inv.region.height <= 10 * layout.rect.height
               => /\ Terminated(inv)
                  /\ inv.calls = <<"onError">>
                  /\ ~inv.started

\* A call of processVideoWithBlur whose processVideo was fulfilled.
C29_Witness ==
    \E i \in 1 .. Len(invocations) :
        /\ invocations[i].component = "video"
        /\ invocations[i].started
        /\ invocations[i].calls = <<"onProcessingComplete">>
        /\ ~videoCanvas.isProcessing

====
